---- MODULE Spec2Model ----
(***************************************************************************)
(* A model of symfit's Model hierarchy (symfit/core/fit.py): construction  *)
(* of a model from a dict of expressions (_init_from_dict), the dependency *)
(* graph (connectivity_mapping), the evaluation order (ordered_symbols),   *)
(* the call signature, and the evaluation of the components in             *)
(* topological order (eval_components).                                    *)
(***************************************************************************)
EXTENDS Integers, Sequences, FiniteSets, TLC

(***************************************************************************)
(* Bounds of the model.                                                    *)
(***************************************************************************)
\* values of the arguments of a call are drawn from 1..MaxVal
MaxVal == 2
\* the length of the data array passed for the independent variable x
MaxLen == 2
\* an ODEModel is evaluated at up to MaxPoints time points
MaxPoints == 3
\* a Fit is given at most MaxConstraints constraints
MaxConstraints == 2
\* a model is called at most MaxCalls times
MaxCalls == 2
\* ordered_symbols is computed at most MaxComputed times
MaxComputed == 3
\* a model is negated at most MaxNegations times in a row
MaxNegations == 3

(***************************************************************************)
(* Symbols.  A symbol is a Variable, a Parameter, or a derivative marker   *)
(* D(v, p1, ...) of a variable with respect to parameters.                 *)
(***************************************************************************)
ParamNames == {"a", "b"}

Sy(n) == [n |-> n, wrt |-> <<>>]
DSy(n, ps) == [n |-> n, wrt |-> ps]

\* isinstance(s, Parameter)
IsParameter(s) == s.wrt = <<>> /\ s.n \in ParamNames
\* isinstance(s, sympy.Derivative)
IsDerivative(s) == s.wrt # <<>>
\* s.derivative_count
DerivativeCount(s) == Len(s.wrt)

\* character codes of the characters that occur in names
Ord == [a |-> 97, b |-> 98, d |-> 100, w |-> 119, x |-> 120, y |-> 121,
        z |-> 122, q |-> 113]
OrdUnderscore == 95
OrdDigit(k) == 48 + k

RECURSIVE VariableCount(_)
\* Derivative.variable_count: runs of equal differentiation variables
VariableCount(ps) ==
    IF ps = <<>> THEN <<>>
    ELSE LET rest == VariableCount(Tail(ps))
         IN IF rest # <<>> /\ rest[1][1] = Head(ps)
            THEN <<<<Head(ps), rest[1][2] + 1>>>> \o Tail(rest)
            ELSE <<<<Head(ps), 1>>>> \o rest

RECURSIVE NameCounts(_)
NameCounts(vc) ==
    IF vc = <<>> THEN <<>>
    ELSE <<Ord.d, Ord[vc[1][1]]>>
         \o (IF vc[1][2] > 1 THEN <<OrdDigit(vc[1][2])>> ELSE <<>>)
         \o NameCounts(Tail(vc))

\* symbol.name as a string of character codes; a derivative is named
\* 'd{count}{expr}_d{var}{count}...', e.g. dy_da, d2y_dadb, d2y_da2
Name(s) ==
    IF ~IsDerivative(s) THEN <<Ord[s.n]>>
    ELSE <<Ord.d>>
         \o (IF DerivativeCount(s) > 1 THEN <<OrdDigit(DerivativeCount(s))>>
             ELSE <<>>)
         \o <<Ord[s.n], OrdUnderscore>>
         \o NameCounts(VariableCount(s.wrt))

RECURSIVE StrLess(_, _)
\* Python's < on strings
StrLess(s, t) ==
    IF t = <<>> THEN FALSE
    ELSE IF s = <<>> THEN TRUE
    ELSE IF Head(s) # Head(t) THEN Head(s) < Head(t)
    ELSE StrLess(Tail(s), Tail(t))

\* sort_func = lambda symbol: symbol.name
NameLess(s, t) == StrLess(Name(s), Name(t))

RECURSIVE SortedByName(_)
\* sorted(S, key=sort_func) for a set of symbols with distinct names
SortedByName(S) ==
    IF S = {} THEN <<>>
    ELSE LET m == CHOOSE u \in S : \A v \in S \ {u} : NameLess(u, v)
         IN <<m>> \o SortedByName(S \ {m})

Range(f) == {f[i] : i \in DOMAIN f}
Reverse(seq) == [i \in DOMAIN seq |-> seq[Len(seq) + 1 - i]]
Min(i, j) == IF i < j THEN i ELSE j
Position(seq, e) == CHOOSE i \in DOMAIN seq : seq[i] = e
Max(i, j) == IF i > j THEN i ELSE j

(***************************************************************************)
(* Expressions: immutable trees.                                           *)
(***************************************************************************)
Num(k) == [t |-> "num", v |-> k]
Sym(s) == [t |-> "sym", s |-> s]
V(n) == Sym(Sy(n))
Add(l, r) == [t |-> "add", l |-> l, r |-> r]
Mul(l, r) == [t |-> "mul", l |-> l, r |-> r]
Pow(b, k) == [t |-> "pow", b |-> b, e |-> k]
\* sympy.Function(symbol.name)(*args): the symbol s as a function of args
Fun(s, args) == [t |-> "fun", s |-> s, args |-> args]
\* sympy.Derivative(f, *wrt) of an applied function f, not evaluated
Der(f, wrt) == [t |-> "der", f |-> f, wrt |-> wrt]
\* Subs(Derivative(f(.., xi, ..), xi), xi, args[i]): the derivative of the
\* applied function f in its i-th argument, taken at that argument
SubsDer(f, i) == [t |-> "subs", f |-> f, i |-> i]

RECURSIVE DerivativeAtoms(_)
\* expr.atoms(sympy.Derivative) as far as seperate_symbols uses them: the
\* derivatives of a variable (a derivative of an applied function is never
\* the derivative of a variable of the expression)
DerivativeAtoms(e) ==
    CASE e.t = "num" -> {}
      [] e.t = "sym" -> IF IsDerivative(e.s) THEN {e.s} ELSE {}
      [] e.t = "pow" -> DerivativeAtoms(e.b)
      [] e.t \in {"fun", "der", "subs"} -> {}
      [] OTHER -> DerivativeAtoms(e.l) \cup DerivativeAtoms(e.r)

RECURSIVE FreeSymbols(_)
\* expr.free_symbols; the free symbols of a derivative marker D(v, p, ...)
\* are v and the parameters p, ...
FreeSymbols(e) ==
    CASE e.t = "num" -> {}
      [] e.t = "sym" -> IF IsDerivative(e.s)
                        THEN {Sy(e.s.n)} \cup {Sy(p) : p \in Range(e.s.wrt)}
                        ELSE {e.s}
      [] e.t = "pow" -> FreeSymbols(e.b)
      [] e.t = "fun" -> UNION {FreeSymbols(e.args[i]) : i \in DOMAIN e.args}
      [] e.t = "der" -> FreeSymbols(e.f) \cup {Sy(p) : p \in Range(e.wrt)}
      [] e.t = "subs" -> FreeSymbols(e.f)
      [] OTHER -> FreeSymbols(e.l) \cup FreeSymbols(e.r)

\* seperate_symbols(expr): the variables and parameters of an expression;
\* a derivative of a variable with respect to parameters counts as a
\* variable
seperate_symbols(e) ==
    LET free == FreeSymbols(e)
        vars == {s \in free : ~IsParameter(s)}
        ders == {s \in DerivativeAtoms(e) :
                    /\ Sy(s.n) \in vars
                    /\ \A p \in Range(s.wrt) : p \in ParamNames}
    IN [vars |-> vars \cup ders,
        params |-> {s \in free : IsParameter(s)}]

\* BaseModel.connectivity_mapping
connectivity_mapping(model_dict) ==
    [var \in DOMAIN model_dict |->
        seperate_symbols(model_dict[var]).vars
            \cup seperate_symbols(model_dict[var]).params]

(***************************************************************************)
(* toposort.toposort(data): the layers of a dependency graph, bottom       *)
(* first.  Self dependencies are ignored; symbols that occur only as       *)
(* dependencies get an empty dependency set.  The generator raises         *)
(* CircularDependencyError when symbols remain but none is free.           *)
(***************************************************************************)
ToposortData(data) ==
    LET deps == UNION {data[k] : k \in DOMAIN data}
    IN [k \in (DOMAIN data) \cup deps |->
            IF k \in DOMAIN data THEN data[k] \ {k} ELSE {}]

RECURSIVE ToposortLayers(_)
ToposortLayers(data) ==
    LET ordered == {k \in DOMAIN data : data[k] = {}}
    IN IF ordered = {}
       THEN [layers |-> <<>>, circular |-> DOMAIN data # {}]
       ELSE LET rest == ToposortLayers(
                    [k \in (DOMAIN data) \ ordered |-> data[k] \ ordered])
            IN [layers |-> <<ordered>> \o rest.layers,
                circular |-> rest.circular]

toposort(data) ==
    IF DOMAIN data = {} THEN [layers |-> <<>>, circular |-> FALSE]
    ELSE ToposortLayers(ToposortData(data))

RECURSIVE Flatten(_)
Flatten(layers) ==
    IF layers = <<>> THEN {} ELSE Head(layers) \cup Flatten(Tail(layers))

(***************************************************************************)
(* BaseModel._init_from_dict and BaseCallableModel._init_from_dict: the    *)
(* attributes of a model built from model_dict, or the exception raised.   *)
(***************************************************************************)
NoModel(exc) ==
    [status |-> exc, model_dict |-> <<>>, params |-> <<>>,
     independent_vars |-> <<>>, dependent_vars |-> <<>>,
     interdependent_vars |-> <<>>, signature |-> <<>>]

\* a signature that lists the parameters before the independent variables
make_signature_params_first(independent_vars, params) ==
    params \o independent_vars

\* BaseCallableModel._make_signature: independent_vars + params
make_signature(independent_vars, params) == independent_vars \o params

init_from_dict(model_dict) ==
    LET srt == toposort(connectivity_mapping(model_dict))
        ordered == srt.layers
    IN IF srt.circular THEN NoModel("CircularDependencyError")
       ELSE IF Len(ordered) < 2 THEN NoModel("IndexError")
       ELSE
        LET independent == SortedByName(ordered[1])
            rest == SubSeq(ordered, 2, Len(ordered))
            middle == SubSeq(rest, 1, Len(rest) - 1)
            params == SelectSeq(independent, IsParameter)
            IsIndependentVar(s) == ~IsParameter(s) /\ s \notin DOMAIN model_dict
            independent_vars == SelectSeq(independent, IsIndependentVar)
        IN [status |-> "ok",
            model_dict |-> model_dict,
            params |-> params,
            independent_vars |-> independent_vars,
            dependent_vars |-> SortedByName(rest[Len(rest)]),
            interdependent_vars |-> SortedByName(Flatten(middle)),
            signature |-> make_signature(independent_vars, params)]

\* the keys of model_dict in descending order of name
KeysDescending(model) == Reverse(SortedByName(DOMAIN model.model_dict))

\* iter(model): the keys of model_dict, sorted by name
Keys(model) == SortedByName(DOMAIN model.model_dict)

\* a key_func that gives every symbol the same key
KeyFuncEqual(s, t) == FALSE

\* BaseModel.ordered_symbols: the layers of toposort, each sorted by
\* [is a derivative, derivative count].  sorted() is stable and a layer is a
\* set, so symbols with equal keys come in the iteration order of the set:
\* every order of the symbols that respects the layers and the key is a
\* possible value.
KeyFuncLess(s, t) ==
    \/ ~IsDerivative(s) /\ IsDerivative(t)
    \/ IsDerivative(s) /\ IsDerivative(t)
        /\ DerivativeCount(s) < DerivativeCount(t)

RECURSIVE Orders(_)
\* all sequences that list every element of the set S once
Orders(S) ==
    IF S = {} THEN {<<>>}
    ELSE UNION {{<<e>> \o o : o \in Orders(S \ {e})} : e \in S}

RECURSIVE SortedOrders(_)
\* sorted(layer, key=key_func): the symbols with the least key first, in
\* any order among themselves
SortedOrders(S) ==
    IF S = {} THEN {<<>>}
    ELSE LET least == {s \in S : \A t \in S : ~KeyFuncLess(t, s)}
         IN UNION {{h \o r : r \in SortedOrders(S \ least)} :
                        h \in Orders(least)}

RECURSIVE LayerOrders(_)
LayerOrders(layers) ==
    IF layers = <<>> THEN {<<>>}
    ELSE UNION {{h \o r : r \in LayerOrders(Tail(layers))} :
                    h \in SortedOrders(Head(layers))}

\* the layers of toposort iterated from the top layer down
ordered_symbols_top_down(model) ==
    LayerOrders(
        Reverse(toposort(connectivity_mapping(model.model_dict)).layers))

ordered_symbols(model) ==
    LayerOrders(toposort(connectivity_mapping(model.model_dict)).layers)

(***************************************************************************)
(* Values: numbers and one-dimensional arrays, with numpy broadcasting.    *)
(***************************************************************************)
Scalar(k) == [d |-> 0, v |-> <<k>>]
Array(seq) == [d |-> 1, v |-> seq]
At(p, i) == IF Len(p.v) = 1 THEN p.v[1] ELSE p.v[i]
\* the shape of the result of broadcasting p and q together
BroadcastDim(p, q) == Max(p.d, q.d)
BroadcastLen(p, q) == Max(Len(p.v), Len(q.v))
VAdd(p, q) ==
    [d |-> BroadcastDim(p, q),
     v |-> [i \in 1..BroadcastLen(p, q) |-> At(p, i) + At(q, i)]]
VMul(p, q) ==
    [d |-> BroadcastDim(p, q),
     v |-> [i \in 1..BroadcastLen(p, q) |-> At(p, i) * At(q, i)]]
\* np.atleast_1d
atleast_1d(p) == [d |-> Max(p.d, 1), v |-> p.v]

RECURSIVE IntPow(_, _)
IntPow(b, k) == IF k = 0 THEN 1 ELSE b * IntPow(b, k - 1)

RECURSIVE EvalExpr(_, _)
\* the callable made by sympy_to_py(expr, dependencies), called with the
\* values env of the dependencies
EvalExpr(e, env) ==
    CASE e.t = "num" -> Scalar(e.v)
      [] e.t = "sym" -> env[e.s]
      [] e.t = "add" -> VAdd(EvalExpr(e.l, env), EvalExpr(e.r, env))
      [] e.t = "mul" -> VMul(EvalExpr(e.l, env), EvalExpr(e.r, env))
      [] e.t = "pow" -> LET b == EvalExpr(e.b, env)
                        IN [d |-> b.d,
                            v |-> [i \in DOMAIN b.v |-> IntPow(b.v[i], e.e)]]

\* CallableModel.numerical_components, called as in eval_components:
\* components[symbol](**dependencies_kwargs)
CallComponent(model, symbol, dependencies_kwargs) ==
    EvalExpr(model.model_dict[symbol], dependencies_kwargs)

(***************************************************************************)
(* Symbolic differentiation: vars_as_functions, function_dict and          *)
(* jacobian_from_model.                                                    *)
(***************************************************************************)
OrdLeftParen == 40
OrdRightParen == 41
OrdComma == 44
OrdSpace == 32

RECURSIVE StrOf(_)
RECURSIVE StrArgs(_)
\* str(arg) of a symbol or an applied function, e.g. "y(x, a)"
StrOf(e) ==
    IF e.t = "sym" THEN Name(e.s)
    ELSE Name(e.s) \o <<OrdLeftParen>> \o StrArgs(e.args) \o <<OrdRightParen>>
StrArgs(args) ==
    IF args = <<>> THEN <<>>
    ELSE IF Len(args) = 1 THEN StrOf(args[1])
    ELSE StrOf(args[1]) \o <<OrdComma, OrdSpace>> \o StrArgs(Tail(args))

\* key = lambda arg: [isinstance(arg, Parameter), str(arg)]
ArgLess(s, t) ==
    LET ps == s.t = "sym" /\ IsParameter(s.s)
        pt == t.t = "sym" /\ IsParameter(t.s)
    IN \/ ~ps /\ pt
       \/ ps = pt /\ StrLess(StrOf(s), StrOf(t))

RECURSIVE SortedArgs(_)
\* sorted(dependencies, key=key): variables first, then parameters
SortedArgs(S) ==
    IF S = {} THEN <<>>
    ELSE LET m == CHOOSE u \in S : \A v \in S \ {u} : ArgLess(u, v)
         IN <<m>> \o SortedArgs(S \ {m})

RECURSIVE VarsToFunctions(_, _, _)
\* the loop of vars_as_functions over the symbols in topological order
VarsToFunctions(conn, syms, vars2functions) ==
    IF syms = <<>> THEN vars2functions
    ELSE LET symbol == Head(syms)
         IN IF symbol \notin DOMAIN conn
            THEN VarsToFunctions(conn, Tail(syms), vars2functions)
            ELSE
             LET dependencies ==
                    {IF d \in DOMAIN vars2functions
                     THEN vars2functions[d] ELSE Sym(d) : d \in conn[symbol]}
                 func == Fun(symbol, SortedArgs(dependencies))
             IN VarsToFunctions(conn, Tail(syms),
                    [k \in (DOMAIN vars2functions) \cup {symbol} |->
                        IF k = symbol THEN func ELSE vars2functions[k]])

\* BaseModel.vars_as_functions: the same dict for every order of the
\* symbols within the layers
vars_as_functions(model) ==
    VarsToFunctions(connectivity_mapping(model.model_dict),
                    CHOOSE o \in ordered_symbols(model) : TRUE,
                    [k \in {} |-> Num(0)])

RECURSIVE XReplace(_, _)
\* expr.xreplace(rule) for a rule that maps symbols to expressions
XReplace(e, rule) ==
    CASE e.t = "num" -> e
      [] e.t = "sym" -> IF e.s \in DOMAIN rule THEN rule[e.s] ELSE e
      [] e.t = "add" -> Add(XReplace(e.l, rule), XReplace(e.r, rule))
      [] e.t = "mul" -> Mul(XReplace(e.l, rule), XReplace(e.r, rule))
      [] e.t = "pow" -> Pow(XReplace(e.b, rule), e.e)
      [] e.t = "fun" ->
            Fun(e.s, [i \in DOMAIN e.args |-> XReplace(e.args[i], rule)])
      [] e.t = "der" -> Der(XReplace(e.f, rule), e.wrt)
      [] e.t = "subs" -> SubsDer(XReplace(e.f, rule), e.i)

\* BaseModel.function_dict, by key instead of by the function of the key
function_dict(model) ==
    LET v2f == vars_as_functions(model)
    IN [var \in DOMAIN v2f |-> XReplace(model.model_dict[var], v2f)]

\* sympy's automatic evaluation of a sum, a product and a power
SAdd(l, r) ==
    IF l.t = "num" /\ r.t = "num" THEN Num(l.v + r.v)
    ELSE IF l = Num(0) THEN r
    ELSE IF r = Num(0) THEN l
    ELSE Add(l, r)
SMul(l, r) ==
    IF l.t = "num" /\ r.t = "num" THEN Num(l.v * r.v)
    ELSE IF l = Num(0) \/ r = Num(0) THEN Num(0)
    ELSE IF l = Num(1) THEN r
    ELSE IF r = Num(1) THEN l
    ELSE Mul(l, r)
SPow(b, k) ==
    IF k = 0 THEN Num(1) ELSE IF k = 1 THEN b ELSE Pow(b, k)

\* a derivative that takes every applied function for a constant
FDiffZero(f, i) == Num(0)

\* AppliedUndef.fdiff: the derivative of the applied function f in its
\* i-th argument
FDiff(f, i) ==
    IF f.args[i].t = "sym" THEN Der(f, <<f.args[i].s.n>>) ELSE SubsDer(f, i)

\* a derivative that returns the expression itself
DiffIdentity(e, p) == e

RECURSIVE Diff(_, _)
RECURSIVE DiffArgs(_, _, _)
\* expr.diff(param) for the parameter named p
Diff(e, p) ==
    CASE e.t = "num" -> Num(0)
      [] e.t = "sym" -> IF e.s = Sy(p) THEN Num(1) ELSE Num(0)
      [] e.t = "add" -> SAdd(Diff(e.l, p), Diff(e.r, p))
      [] e.t = "mul" -> SAdd(SMul(Diff(e.l, p), e.r), SMul(e.l, Diff(e.r, p)))
      [] e.t = "pow" ->
            SMul(SMul(Num(e.e), SPow(e.b, e.e - 1)), Diff(e.b, p))
      [] e.t = "fun" -> DiffArgs(e, p, Len(e.args))
      [] e.t = "der" ->
            IF Sy(p) \in FreeSymbols(e.f) THEN Der(e.f, e.wrt \o <<p>>)
            ELSE Num(0)
      [] e.t = "subs" -> Num(0)
\* the chain rule over the first n arguments of the applied function f
DiffArgs(f, p, n) ==
    IF n = 0 THEN Num(0)
    ELSE SAdd(DiffArgs(f, p, n - 1), SMul(Diff(f.args[n], p), FDiff(f, n)))

\* a derivative that forgets the variables var is already differentiated by
partial_diff_replace(var, params) == DSy(var.n, params)

\* _partial_diff(var, *params) for a variable or a derivative of a variable
partial_diff(var, params) == DSy(var.n, var.wrt \o params)

RECURSIVE SubsBack(_, _)
\* expr.subs(functions_as_vars, evaluate=False), functions_as_vars being
\* the inverse of v2f: an applied function of the dict becomes its
\* variable, and its derivative the derivative of the variable
SubsBack(e, v2f) ==
    LET HasVar(f) == \E k \in DOMAIN v2f : v2f[k] = f
        VarOf(f) == CHOOSE k \in DOMAIN v2f : v2f[k] = f
    IN CASE e.t \in {"num", "sym"} -> e
         [] e.t = "add" -> Add(SubsBack(e.l, v2f), SubsBack(e.r, v2f))
         [] e.t = "mul" -> Mul(SubsBack(e.l, v2f), SubsBack(e.r, v2f))
         [] e.t = "pow" -> Pow(SubsBack(e.b, v2f), e.e)
         [] e.t = "fun" ->
                IF HasVar(e) THEN Sym(VarOf(e))
                ELSE Fun(e.s, [i \in DOMAIN e.args |->
                                    SubsBack(e.args[i], v2f)])
         [] e.t = "der" ->
                IF HasVar(e.f) THEN Sym(partial_diff(VarOf(e.f), e.wrt))
                ELSE Der(SubsBack(e.f, v2f), e.wrt)
         [] e.t = "subs" -> SubsDer(SubsBack(e.f, v2f), e.i)

\* jacobian_from_model(model, as_functions): the dict handed to
\* CallableModel
jacobian_from_model(model, as_functions) ==
    LET v2f == vars_as_functions(model)
        fd == function_dict(model)
        pairs == {<<var, model.params[i].n>> :
                    var \in DOMAIN fd, i \in DOMAIN model.params}
        Target(pair) == partial_diff(pair[1], <<pair[2]>>)
        PairOf(key) == CHOOSE pair \in pairs : Target(pair) = key
        Dfdp(pair) ==
            IF as_functions THEN Diff(fd[pair[1]], pair[2])
            ELSE SubsBack(Diff(fd[pair[1]], pair[2]), v2f)
    IN [key \in {Target(pair) : pair \in pairs} \cup DOMAIN model.model_dict
            |-> IF key \in DOMAIN model.model_dict
                THEN IF as_functions THEN model.model_dict[key]
                     ELSE SubsBack(model.model_dict[key], v2f)
                ELSE Dfdp(PairOf(key))]

\* hessian_from_model(model): the Jacobian of the Jacobian kept as functions
hessian_from_model(model) ==
    LET jac_model == init_from_dict(jacobian_from_model(model, TRUE))
    IN jacobian_from_model(jac_model, FALSE)

(***************************************************************************)
(* The model specifications and the calls that are tried.                  *)
(***************************************************************************)
KeyNames == {"w", "y", "z"}

ExprPool ==
    { Num(1),
      Mul(V("a"), V("x")),
      Add(Pow(V("y"), 2), V("a")),
      V("x"),
      Mul(V("z"), V("b")),
      Add(V("w"), V("y")) }

ModelDicts ==
    UNION {[{Sy(n) : n \in K} -> ExprPool] : K \in (SUBSET KeyNames) \ {{}}}

\* the name of an argument that is in no signature
Unknown == Sy("q")

\* the value passed for a symbol of the signature
ArgValue(s, va, isarray) ==
    IF s.n = "a" THEN Scalar(va)
    ELSE IF s.n = "b" THEN Scalar(va + 1)
    ELSE IF isarray THEN Array([i \in 1..MaxLen |-> i])
    ELSE Scalar(MaxVal)

\* the dicts a model with a Jacobian is built from: one or two keys, no key
\* that depends on itself
GradientKeyNames == {"y", "z"}

GradientExprPool ==
    { Num(1),
      Mul(V("a"), V("x")),
      Add(Mul(V("a"), V("x")), V("b")),
      Add(Pow(V("y"), 2), V("a")),
      V("x") }

GradientDicts ==
    {md \in UNION {[{Sy(n) : n \in K} -> GradientExprPool] :
                        K \in (SUBSET GradientKeyNames) \ {{}}} :
        \A k \in DOMAIN md : k \notin FreeSymbols(md[k])}

\* the parameters of the expressions of a dict
DictParams(md) == UNION {seperate_symbols(md[k]).params : k \in DOMAIN md}

\* the dicts a model with a Hessian is built from: one key with at most two
\* parameters, or two keys with at most one
HessianDicts ==
    {md \in GradientDicts :
        Cardinality(DOMAIN md) * Cardinality(DictParams(md)) <= 2}

(***************************************************************************)
(* GradientModel.eval_jacobian after the call of jacobian_model: one       *)
(* array of shape (n_params, *shape) per key of the model.                 *)
(***************************************************************************)
\* an array of zeros of the shape of p
zeros_like(p) == [d |-> p.d, v |-> [i \in DOMAIN p.v |-> 0]]

\* np.ones_like
ones_like(p) == [d |-> p.d, v |-> [i \in DOMAIN p.v |-> 1]]

RECURSIVE MaxLenOf(_)
MaxLenOf(comp) ==
    IF comp = <<>> THEN 0 ELSE Max(Len(Head(comp).v), MaxLenOf(Tail(comp)))

\* np.stack(np.broadcast_arrays(*comp)): ValueError for an empty list
stack_broadcast(comp) ==
    IF comp = <<>> THEN [exc |-> "ValueError", shape |-> <<>>, rows |-> <<>>]
    ELSE [exc |-> "none",
          shape |-> <<Len(comp), MaxLenOf(comp)>>,
          rows |-> [i \in DOMAIN comp |->
                        [j \in 1..MaxLenOf(comp) |-> At(comp[i], j)]]]

\* the list jac of eval_jacobian, from the evaluated jacobian_model
eval_jacobian_stack(m, eval_jac_dict) ==
    LET keys == Keys(m)
        Entry(var, param) ==
            LET k == partial_diff(var, <<param.n>>)
            IN VMul(IF k \in DOMAIN eval_jac_dict THEN eval_jac_dict[k]
                    ELSE Scalar(0),
                    ones_like(eval_jac_dict[var]))
    IN [c \in DOMAIN keys |->
            stack_broadcast([i \in DOMAIN m.params |->
                                Entry(keys[c], m.params[i])])]

RECURSIVE MaxLenOfLists(_)
MaxLenOfLists(comp) ==
    IF comp = <<>> THEN 0
    ELSE Max(MaxLenOf(Head(comp)), MaxLenOfLists(Tail(comp)))

\* np.stack(np.broadcast_arrays(*comp)) for a list of lists of arrays
stack_broadcast_lists(comp) ==
    IF comp = <<>> THEN [exc |-> "ValueError", shape |-> <<>>, rows |-> <<>>]
    ELSE [exc |-> "none",
          shape |-> <<Len(comp), Len(comp[1]), MaxLenOfLists(comp)>>,
          rows |-> [i \in DOMAIN comp |->
                        [j \in DOMAIN comp[i] |->
                            [k \in 1..MaxLenOfLists(comp) |->
                                At(comp[i][j], k)]]]]

\* the list hess of eval_hessian, from the evaluated hessian_model
eval_hessian_stack(m, eval_hess_dict) ==
    LET keys == Keys(m)
        Entry(var, p1, p2) ==
            LET k == DSy(var.n, <<p1.n, p2.n>>)
            IN VMul(IF k \in DOMAIN eval_hess_dict THEN eval_hess_dict[k]
                    ELSE Scalar(0),
                    ones_like(eval_hess_dict[var]))
    IN [c \in DOMAIN keys |->
            stack_broadcast_lists(
                [i \in DOMAIN m.params |->
                    [j \in DOMAIN m.params |->
                        Entry(keys[c], m.params[i], m.params[j])]])]

(***************************************************************************)
(* State.                                                                  *)
(***************************************************************************)
VARIABLES
    model_dict,      \* the dict handed to the constructor
    model,           \* the attributes of the constructed model
    jacobian_model,  \* the attributes of model.jacobian_model
    pc,              \* "new", "idle", "eval", "returned", "raised", "done"
    target,          \* the model that is evaluated: "model", "jacobian_model"
    call,            \* the arguments of the current call: [npos, kws, va, arr]
    symbols,         \* ordered_symbols as iterated in the current call
    idx,             \* position of the loop of eval_components in symbols
    kwargs,          \* the name -> value dict of the current call
    calls,           \* the components called in the current call
    result,          \* the list returned by eval_components
    jac,             \* the list returned by eval_jacobian
    exc,             \* the exception raised by the current call
    hessian_model,   \* the attributes of model.hessian_model
    hess,            \* the list returned by eval_hessian
    fd,              \* the calls and the value of finite_difference
    other,           \* the models made from model: -model, -(-model), ...,
                     \* or the model that model is compared with
    equal,           \* the value of model == other[1]
    initial,         \* the initial conditions of an ODEModel
    param_attrs,     \* fixed, value, min and max of the Parameter objects
    bounds,          \* the list returned by model.bounds
    constraints,     \* the constraints of a Fit: those given to it, then
                     \* the list made by _init_constraints
    computed         \* how often each derived value has been computed

vars == <<model_dict, model, jacobian_model, pc, target, call, symbols, idx,
          kwargs, calls, result, jac, exc, hessian_model, hess, fd, other,
          equal, initial, param_attrs, bounds, constraints, computed>>

\* the variables of the parameters, of a Fit and of the cache
fitVars == <<param_attrs, bounds, constraints, computed>>

\* the variables of the second model
algebraVars == <<other, equal>>
\* finite_difference before any call
NoDifference == [evaluations |-> <<>>, none |-> TRUE, out |-> <<>>]

NoCall == [npos |-> 0, kws |-> {}, va |-> 0, arr |-> FALSE]

\* the model whose eval_components is running
Evaluated ==
    IF target = "jacobian_model" THEN jacobian_model
    ELSE IF target = "hessian_model" THEN hessian_model
    ELSE model

InitState ==
    /\ model = NoModel("new")
    /\ jacobian_model = NoModel("new")
    /\ pc = "new"
    /\ target = "model"
    /\ call = NoCall
    /\ symbols = <<>>
    /\ idx = 0
    /\ kwargs = <<>>
    /\ calls = <<>>
    /\ result = <<>>
    /\ jac = <<>>
    /\ exc = "none"
    /\ hessian_model = NoModel("new")
    /\ hess = <<>>
    /\ fd = NoDifference
    /\ other = <<>>
    /\ equal = FALSE
    /\ initial = <<>>
    /\ param_attrs = <<>>
    /\ bounds = <<>>
    /\ constraints = <<>>
    /\ computed = <<>>

Init == model_dict \in ModelDicts /\ InitState

\* CallableModel(model_dict): BaseModel.__init__ -> _init_from_dict
Construct ==
    /\ pc = "new"
    /\ model' = init_from_dict(model_dict)
    /\ pc' = IF model'.status = "ok" THEN "idle" ELSE "raised"
    /\ exc' = IF model'.status = "ok" THEN "none" ELSE model'.status
    /\ UNCHANGED <<model_dict, jacobian_model, target, call, symbols, idx,
                   kwargs, calls, result, jac, hessian_model, hess, fd,
                   algebraVars, initial, fitVars>>

\* the symbols that get a value from npos positional arguments and the
\* keyword arguments kws
Bound(sig, npos, kws) == {sig[i] : i \in 1..Min(npos, Len(sig))} \cup kws

\* a bind that accepts a call that leaves symbols without a value
BindPartial(sig, npos, kws) ==
    /\ npos <= Len(sig)
    /\ kws \subseteq {sig[i] : i \in (npos + 1)..Len(sig)}

\* self.__signature__.bind(*args, **kwargs) succeeds: no positional
\* argument too many, no keyword that is not in the signature or already
\* given by position, and no symbol of the signature without a value
BindOk(sig, npos, kws) ==
    /\ npos <= Len(sig)
    /\ kws = {sig[i] : i \in (npos + 1)..Len(sig)}

\* eval_components of the model m up to the loop: bind the arguments, or
\* raise TypeError
StartCall(tgt, m, npos, kws, va, arr, os) ==
    /\ target' = tgt
    /\ call' = [npos |-> npos, kws |-> kws, va |-> va, arr |-> arr]
    /\ calls' = <<>>
    /\ result' = <<>>
    /\ jac' = <<>>
    /\ hess' = <<>>
    /\ fd' = NoDifference
    /\ IF BindOk(m.signature, npos, kws)
       THEN /\ kwargs' = [s \in Bound(m.signature, npos, kws) |->
                            ArgValue(s, va, arr)]
            /\ symbols' = os
            /\ idx' = 1
            /\ pc' = "eval"
            /\ exc' = "none"
       ELSE /\ kwargs' = <<>>
            /\ symbols' = <<>>
            /\ idx' = 0
            /\ pc' = "raised"
            /\ exc' = "TypeError"
    /\ UNCHANGED <<model_dict, model, jacobian_model, hessian_model,
                   algebraVars, initial, fitVars>>

\* model(*args, **kwargs)
Call ==
    /\ pc = "idle"
    /\ \E npos \in 0..(Len(model.signature) + 1),
          kws \in SUBSET (Range(model.signature) \cup {Unknown}),
          va \in 1..MaxVal, arr \in BOOLEAN,
          os \in ordered_symbols(model) :
        StartCall("model", model, npos, kws, va, arr, os)

\* a loop that computes every symbol, supplied or not
NeverSupplied(symbol, kw) == FALSE

\* `symbol.name not in kwargs` is false: the value is already there
Supplied(symbol, kw) == symbol \in DOMAIN kw

\* one iteration of the loop of eval_components
EvalStep ==
    /\ pc = "eval"
    /\ idx <= Len(symbols)
    /\ LET symbol == symbols[idx]
           conn == connectivity_mapping(Evaluated.model_dict)
       IN IF Supplied(symbol, kwargs)
          THEN /\ idx' = idx + 1
               /\ UNCHANGED <<pc, kwargs, calls, exc, fitVars>>
          ELSE IF symbol \notin DOMAIN conn
                  \/ ~(conn[symbol] \subseteq DOMAIN kwargs)
          THEN /\ pc' = "raised"
               /\ exc' = "KeyError"
               /\ UNCHANGED <<idx, kwargs, calls, fitVars>>
          ELSE LET dependencies_kwargs ==
                        [d \in conn[symbol] |-> kwargs[d]]
                   out == CallComponent(Evaluated, symbol,
                                        dependencies_kwargs)
               IN /\ kwargs' = [s \in (DOMAIN kwargs) \cup {symbol} |->
                                    IF s = symbol THEN out ELSE kwargs[s]]
                  /\ calls' = Append(calls,
                        [symbol |-> symbol, args |-> dependencies_kwargs,
                         out |-> out])
                  /\ idx' = idx + 1
                  /\ UNCHANGED <<pc, exc, fitVars>>
    /\ UNCHANGED <<model_dict, model, jacobian_model, target, call, symbols,
                   result, jac, hessian_model, hess, fd, algebraVars,
                   initial, fitVars>>

\* the return statement of eval_components
Return ==
    /\ pc = "eval"
    /\ idx = Len(symbols) + 1
    /\ LET keys == Keys(Evaluated)
       IN result' = [i \in DOMAIN keys |-> atleast_1d(kwargs[keys[i]])]
    /\ pc' = "returned"
    /\ UNCHANGED <<model_dict, model, jacobian_model, target, call, symbols,
                   idx, kwargs, calls, jac, exc, hessian_model, hess, fd,
                   algebraVars, initial, fitVars>>

\* the call is over (returned or raised); the model can be called again
Finish ==
    /\ \/ pc \in {"raised", "done"}
       \/ pc = "returned" /\ target = "model"
    /\ model.status = "ok"
    /\ jacobian_model.status \in {"new", "ok"}
    /\ hessian_model.status \in {"new", "ok"}
    /\ pc' = "idle"
    /\ target' = "model"
    /\ call' = NoCall
    /\ symbols' = <<>>
    /\ idx' = 0
    /\ kwargs' = <<>>
    /\ calls' = <<>>
    /\ result' = <<>>
    /\ jac' = <<>>
    /\ hess' = <<>>
    /\ fd' = NoDifference
    /\ exc' = "none"
    /\ UNCHANGED <<model_dict, model, jacobian_model, hessian_model,
                   algebraVars, initial, fitVars>>

Next == Construct \/ Call \/ EvalStep \/ Return \/ Finish

Spec == Init /\ [][Next]_vars

(***************************************************************************)
(* A GradientModel: the constructor also builds jacobian_model, and        *)
(* eval_jacobian evaluates it.                                             *)
(***************************************************************************)
InitGradient == model_dict \in GradientDicts /\ InitState

\* GradientModel(model_dict): _init_from_dict, then
\* self.jacobian_model = jacobian_from_model(self)
ConstructGradient ==
    /\ pc = "new"
    /\ model' = init_from_dict(model_dict)
    /\ jacobian_model' =
        IF model'.status = "ok"
        THEN init_from_dict(jacobian_from_model(model', FALSE))
        ELSE jacobian_model
    /\ LET failure == IF model'.status # "ok" THEN model'.status
                      ELSE IF jacobian_model'.status # "ok"
                      THEN jacobian_model'.status ELSE "none"
       IN /\ pc' = IF failure = "none" THEN "idle" ELSE "raised"
          /\ exc' = failure
    /\ UNCHANGED <<model_dict, target, call, symbols, idx, kwargs, calls,
                   result, jac, hessian_model, hess, fd, algebraVars,
                   initial, fitVars>>

\* eval_jacobian up to the loop of jacobian_model.eval_components, called
\* with a value for every symbol of the signature
EvalJacobian ==
    /\ pc = "idle"
    /\ \E va \in 1..MaxVal, arr \in BOOLEAN,
          os \in ordered_symbols(jacobian_model) :
        StartCall("jacobian_model", jacobian_model,
                  Len(jacobian_model.signature), {}, va, arr, os)

\* eval_jacobian after jacobian_model has returned: build, broadcast and
\* stack the rows of every component
StackJacobian ==
    /\ pc = "returned"
    /\ target = "jacobian_model"
    /\ LET keys == Keys(jacobian_model)
           eval_jac_dict == [k \in Range(keys) |-> result[Position(keys, k)]]
           stacked == eval_jacobian_stack(model, eval_jac_dict)
           failed == \E c \in DOMAIN stacked : stacked[c].exc # "none"
       IN IF failed
          THEN /\ pc' = "raised"
               /\ exc' = "ValueError"
               /\ jac' = <<>>
          ELSE /\ pc' = "done"
               /\ exc' = "none"
               /\ jac' = stacked
    /\ UNCHANGED <<model_dict, model, jacobian_model, target, call, symbols,
                   idx, kwargs, calls, result, hessian_model, hess, fd,
                   algebraVars, initial, fitVars>>

NextGradient ==
    ConstructGradient \/ EvalJacobian \/ EvalStep \/ Return \/ StackJacobian
        \/ Finish

GradientSpec == InitGradient /\ [][NextGradient]_vars

(***************************************************************************)
(* A HessianModel: the constructor also builds hessian_model, and          *)
(* eval_hessian evaluates it.                                              *)
(***************************************************************************)
InitHessian == model_dict \in HessianDicts /\ InitState

\* HessianModel(model_dict): GradientModel.__init__, then
\* self.hessian_model = hessian_from_model(self)
ConstructHessian ==
    /\ pc = "new"
    /\ model' = init_from_dict(model_dict)
    /\ jacobian_model' =
        IF model'.status = "ok"
        THEN init_from_dict(jacobian_from_model(model', FALSE))
        ELSE jacobian_model
    /\ hessian_model' =
        IF model'.status = "ok" /\ jacobian_model'.status = "ok"
        THEN init_from_dict(hessian_from_model(model'))
        ELSE hessian_model
    /\ LET failure == IF model'.status # "ok" THEN model'.status
                      ELSE IF jacobian_model'.status # "ok"
                      THEN jacobian_model'.status
                      ELSE IF hessian_model'.status # "ok"
                      THEN hessian_model'.status ELSE "none"
       IN /\ pc' = IF failure = "none" THEN "idle" ELSE "raised"
          /\ exc' = failure
    /\ UNCHANGED <<model_dict, target, call, symbols, idx, kwargs, calls,
                   result, jac, hess, fd, algebraVars, initial, fitVars>>

\* eval_hessian up to the loop of hessian_model.eval_components, called
\* with a value for every symbol of the signature
EvalHessian ==
    /\ pc = "idle"
    /\ \E va \in 1..MaxVal, arr \in BOOLEAN,
          os \in ordered_symbols(hessian_model) :
        StartCall("hessian_model", hessian_model,
                  Len(hessian_model.signature), {}, va, arr, os)

\* eval_hessian after hessian_model has returned: build, broadcast and
\* stack the rows of every component
StackHessian ==
    /\ pc = "returned"
    /\ target = "hessian_model"
    /\ LET keys == Keys(hessian_model)
           eval_hess_dict == [k \in Range(keys) |-> result[Position(keys, k)]]
           stacked == eval_hessian_stack(model, eval_hess_dict)
           failed == \E c \in DOMAIN stacked : stacked[c].exc # "none"
       IN IF failed
          THEN /\ pc' = "raised"
               /\ exc' = "ValueError"
               /\ hess' = <<>>
          ELSE /\ pc' = "done"
               /\ exc' = "none"
               /\ hess' = stacked
    /\ UNCHANGED <<model_dict, model, jacobian_model, target, call, symbols,
                   idx, kwargs, calls, result, jac, hessian_model, fd,
                   algebraVars, initial, fitVars>>

NextHessian ==
    ConstructHessian \/ EvalJacobian \/ EvalHessian \/ EvalStep \/ Return
        \/ StackJacobian \/ StackHessian \/ Finish

HessianSpec == InitHessian /\ [][NextHessian]_vars

(***************************************************************************)
(* BaseGradientModel.finite_difference: the calls of the model it makes    *)
(* and the arrays it returns.  The numbers in the arrays are floating      *)
(* point approximations and are left out: an array is its shape.           *)
(***************************************************************************)
RECURSIVE EvalSymbols(_, _, _)
\* the loop of eval_components of the model m over the symbols syms, from
\* the values kw of the arguments
EvalSymbols(m, syms, kw) ==
    IF syms = <<>> THEN kw
    ELSE LET symbol == Head(syms)
             conn == connectivity_mapping(m.model_dict)
         IN IF Supplied(symbol, kw) THEN EvalSymbols(m, Tail(syms), kw)
            ELSE LET out == CallComponent(m, symbol,
                                [d \in conn[symbol] |-> kw[d]])
                 IN EvalSymbols(m, Tail(syms),
                        [s \in (DOMAIN kw) \cup {symbol} |->
                            IF s = symbol THEN out ELSE kw[s]])

\* f(*params) with f = partial(self, *var_vals): the value of every key
CallModel(m, kw) ==
    LET all == EvalSymbols(m, CHOOSE o \in ordered_symbols(m) : TRUE, kw)
        keys == Keys(m)
    IN [i \in DOMAIN keys |-> atleast_1d(all[keys[i]])]

\* len(factors): the number of orders of the stencil
NumFactors == 3

RECURSIVE difference_loop(_, _, _, _, _)
\* the loops of finite_difference over the parameters and the orders, from
\* the parameter param_idx and the order on; every iteration evaluates the
\* model above (up) and below (down) the value of the parameter and adds to
\* the row of the parameter in the array of every component
difference_loop(m, kw, param_idx, order, state) ==
    IF param_idx > Len(m.params) THEN state
    ELSE IF order > NumFactors
    THEN difference_loop(m, kw, param_idx + 1, 1, state)
    ELSE LET up == CallModel(m, kw)
             step(sign) ==
                [param |-> param_idx, order |-> order, sign |-> sign]
             out == IF state.none
                    THEN [comp_idx \in DOMAIN up |->
                            [shape |-> <<Len(m.params), Len(up[comp_idx].v)>>]]
                    ELSE state.out
         IN difference_loop(m, kw, param_idx, order + 1,
                [evaluations |->
                    state.evaluations \o <<step(1), step(-1)>>,
                 none |-> FALSE,
                 out |-> out])

\* finite_difference(*args): out stays None when there is no parameter
finite_difference(m, kw) == difference_loop(m, kw, 1, 1, NoDifference)

\* model.finite_difference(...), called with a value for every symbol of
\* the signature
FiniteDifference ==
    /\ pc = "idle"
    /\ \E va \in 1..MaxVal, arr \in BOOLEAN :
        LET kw == [s \in Range(model.signature) |-> ArgValue(s, va, arr)]
        IN /\ call' = [npos |-> Len(model.signature), kws |-> {},
                       va |-> va, arr |-> arr]
           /\ kwargs' = kw
           /\ fd' = finite_difference(model, kw)
    /\ target' = "finite_difference"
    /\ pc' = "done"
    /\ UNCHANGED <<model_dict, model, jacobian_model, symbols, idx, calls,
                   result, jac, exc, hessian_model, hess, algebraVars,
                   initial, fitVars>>

NextDifference == ConstructGradient \/ FiniteDifference \/ Finish

DifferenceSpec == InitGradient /\ [][NextDifference]_vars

(***************************************************************************)
(* BaseModel.__eq__ and BaseModel.__neg__.  expr.expand() is a sum of      *)
(* terms, a term a coefficient times a product of powers; two expanded     *)
(* expressions are the same sympy object when they have the same terms.    *)
(* A power of a sum with a negative exponent is not expanded any further:  *)
(* the sum is the base of a power.                                         *)
(***************************************************************************)
\* the base of a power: a symbol, or a sum (an expanded expression)
SymbolBase(s) == [s |-> s, p |-> {}]
SumBase(p) == [s |-> Sy(""), p |-> p]

\* the expanded form of a number and of a symbol
PConst(k) == IF k = 0 THEN {} ELSE {[m |-> {}, c |-> k]}
PSym(s) == {[m |-> {[b |-> SymbolBase(s), e |-> 1]}, c |-> 1]}

\* the exponent of the base b in the product m
Exponent(m, b) ==
    IF \E f \in m : f.b = b THEN (CHOOSE f \in m : f.b = b).e ELSE 0
\* the product of two products of powers: the exponents of a base add up
MMul(m1, m2) ==
    {f \in {[b |-> b, e |-> Exponent(m1, b) + Exponent(m2, b)] :
                b \in {g.b : g \in m1 \cup m2}} : f.e # 0}

\* the coefficient of the product m in the sum p
Coefficient(p, m) ==
    IF \E t \in p : t.m = m THEN (CHOOSE t \in p : t.m = m).c ELSE 0
\* the sum of two sums: the coefficients of a product add up
PAdd(p, q) ==
    {t \in {[m |-> m, c |-> Coefficient(p, m) + Coefficient(q, m)] :
                m \in {u.m : u \in p \cup q}} : t.c # 0}

\* a term times a sum
PScale(t, q) == {[m |-> MMul(t.m, u.m), c |-> t.c * u.c] : u \in q}

RECURSIVE PMul(_, _)
\* the product of two sums, multiplied out
PMul(p, q) ==
    IF p = {} THEN {}
    ELSE LET t == CHOOSE u \in p : TRUE
         IN PAdd(PScale(t, q), PMul(p \ {t}, q))

RECURSIVE PPow(_, _)
PPow(p, k) == IF k = 0 THEN PConst(1) ELSE PMul(p, PPow(p, k - 1))

\* 1/p: the inverse of a product of powers is a product of powers, the
\* inverse of a sum stays a power of the sum
PInv(p) ==
    IF \E t \in p : p = {t} /\ t.c = 1
    THEN LET t == CHOOSE u \in p : TRUE
         IN {[m |-> {[b |-> f.b, e |-> 0 - f.e] : f \in t.m}, c |-> 1]}
    ELSE {[m |-> {[b |-> SumBase(p), e |-> 0 - 1]}, c |-> 1]}

RECURSIVE Expand(_)
\* expr.expand()
Expand(e) ==
    CASE e.t = "num" -> PConst(e.v)
      [] e.t = "sym" -> PSym(e.s)
      [] e.t = "add" -> PAdd(Expand(e.l), Expand(e.r))
      [] e.t = "mul" -> PMul(Expand(e.l), Expand(e.r))
      [] e.t = "pow" ->
            IF e.e >= 0 THEN PPow(Expand(e.b), e.e)
            ELSE PInv(PPow(Expand(e.b), 0 - e.e))

\* self == other
model_eq(self, other_model) ==
    LET keys_1 == Keys(self)
        keys_2 == Keys(other_model)
    IN IF Len(keys_1) # Len(keys_2) THEN FALSE
       ELSE \A i \in DOMAIN keys_1 :
                /\ keys_1[i] = keys_2[i]
                /\ Expand(self.model_dict[keys_1[i]])
                        = Expand(other_model.model_dict[keys_2[i]])

\* an expression times -2
NegDouble(e) == Mul(Num(0 - 2), e)

RECURSIVE Neg(_)
\* expr * -1 as sympy builds it: the number is negated, -1 is distributed
\* over the terms of a sum and multiplied into the coefficient of a product
Neg(e) ==
    CASE e.t = "num" -> Num(0 - e.v)
      [] e.t = "add" -> Add(Neg(e.l), Neg(e.r))
      [] e.t = "mul" /\ e.l.t = "num" -> SMul(Num(0 - e.l.v), e.r)
      [] OTHER -> Mul(Num(0 - 1), e)

\* new_model_dict after the loop of __neg__
neg_model_dict(md) == [key \in DOMAIN md |-> Neg(md[key])]

\* a loop that assigns to the keys of self.model_dict itself
neg_in_place(md) == [key \in DOMAIN md |-> Neg(md[key])]

\* self.model_dict after the loop of __neg__: the loop assigns to the keys
\* of a copy
neg_original(md) == md

\* the dicts of the models that are negated and compared
AlgebraKeyNames == {"y", "z"}

AlgebraExprPool ==
    { Add(Mul(V("a"), V("x")), V("b")),
      Add(V("b"), Mul(V("x"), V("a"))),
      Mul(V("a"), Add(V("x"), Num(1))),
      Add(Mul(V("a"), V("x")), V("a")),
      Add(Mul(Mul(V("a"), V("x")), Pow(Add(V("x"), Num(1)), 0 - 1)),
          Mul(V("a"), Pow(Add(V("x"), Num(1)), 0 - 1))),
      V("a") }

AlgebraDicts ==
    UNION {[{Sy(n) : n \in K} -> AlgebraExprPool] :
                K \in (SUBSET AlgebraKeyNames) \ {{}}}

InitAlgebra == model_dict \in AlgebraDicts /\ InitState

\* -self for self the model, or the model made by the last negation
Negate ==
    /\ pc = "idle"
    /\ Len(other) < MaxNegations
    /\ LET n == Len(other)
           self == IF n = 0 THEN model ELSE other[n]
           new == init_from_dict(neg_model_dict(self.model_dict))
           after == [self EXCEPT !.model_dict = neg_original(@)]
       IN /\ model' = IF n = 0 THEN after ELSE model
          /\ other' = (IF n = 0 THEN other ELSE [other EXCEPT ![n] = after])
                            \o <<new>>
    /\ UNCHANGED <<model_dict, jacobian_model, pc, target, call, symbols,
                   idx, kwargs, calls, result, jac, exc, hessian_model, hess,
                   fd, equal, initial, fitVars>>

\* model == Model(d)
Compare ==
    /\ pc = "idle"
    /\ other = <<>>
    /\ \E d \in AlgebraDicts :
        /\ init_from_dict(d).status = "ok"
        /\ other' = <<init_from_dict(d)>>
        /\ equal' = model_eq(model, init_from_dict(d))
    /\ pc' = "compared"
    /\ UNCHANGED <<model_dict, model, jacobian_model, target, call, symbols,
                   idx, kwargs, calls, result, jac, exc, hessian_model, hess,
                   fd, initial, fitVars>>

NextAlgebra == Construct \/ Negate \/ Compare

AlgebraSpec == InitAlgebra /\ [][NextAlgebra]_vars

(***************************************************************************)
(* ODEModel.  The keys of model_dict are derivatives D(y, x) of a          *)
(* dependent variable with respect to an independent one, written          *)
(* DSy("y", <<"x">>); the right-hand sides are a parameter or a number, so *)
(* that the solution through (t0, y0) is y0 + rate * (t - t0).             *)
(***************************************************************************)
ODEKeySets ==
    { {},
      {DSy("y", <<"x">>)},
      {DSy("z", <<"x">>)},
      {DSy("z", <<"w">>)},
      {DSy("y", <<"x">>), DSy("z", <<"x">>)},
      {DSy("y", <<"x">>), DSy("z", <<"w">>)} }

ODEExprPool == {V("a"), V("b"), Num(1)}

ODEDicts == UNION {[K -> ODEExprPool] : K \in ODEKeySets}

\* the initial values of the variables, the independent ones at t0
InitialTimes == {0, 1}
Initials ==
    {[s \in {Sy("w"), Sy("x"), Sy("y"), Sy("z")} |->
        CASE s.n = "y" -> 1
          [] s.n = "z" -> 2
          [] OTHER -> t0] : t0 \in InitialTimes}

\* list(d.free_symbols - set(d.variables))[0]
dependent_derivatives(md) == [d \in DOMAIN md |-> Sy(d.n)]

\* ODEModel.__init__
ode_init(md) ==
    LET independent_vars == SortedByName({Sy(d.wrt[1]) : d \in DOMAIN md})
        params == SortedByName(
            UNION {seperate_symbols(md[d]).params : d \in DOMAIN md})
    IN IF Len(independent_vars) = 0 THEN NoModel("ModelError")
       ELSE [status |-> "ok",
             model_dict |-> md,
             params |-> params,
             independent_vars |-> independent_vars,
             dependent_vars |->
                SortedByName(Range(dependent_derivatives(md))),
             interdependent_vars |-> <<>>,
             signature |-> make_signature(independent_vars, params)]

\* ODEModel.__getitem__: the right-hand side of the derivative of var
ode_getitem(m, var) ==
    m.model_dict[CHOOSE d \in DOMAIN m.model_dict :
                    dependent_derivatives(m.model_dict)[d] = var]

\* a component of _ncomponents called with the value va for a (and va + 1
\* for b)
ncomponent(e, va) ==
    CASE e.t = "num" -> e.v
      [] e.s.n = "a" -> va
      [] OTHER -> va + 1

\* an elementwise comparison of numpy
Holds(u, op, v) ==
    CASE op = ">=" -> u >= v
      [] op = "<=" -> u <= v
      [] op = ">" -> u > v
      [] OTHER -> u < v

RECURSIVE Where(_, _, _)
\* t_like[t_like op t_initial]
Where(t, op, v) ==
    IF t = <<>> THEN <<>>
    ELSE (IF Holds(Head(t), op, v) THEN <<Head(t)>> ELSE <<>>)
         \o Where(Tail(t), op, v)

\* seq[:-1]
AllButLast(seq) == SubSeq(seq, 1, Len(seq) - 1)

RECURSIVE MaskNotEqual(_, _, _)
\* ans[t_total != t_initial]
MaskNotEqual(ans, t_total, v) ==
    IF ans = <<>> THEN <<>>
    ELSE (IF Head(t_total) # v THEN <<Head(ans)>> ELSE <<>>)
         \o MaskNotEqual(Tail(ans), Tail(t_total), v)

\* the times ts are not decreasing, or not increasing
Monotonic(ts) ==
    \/ \A i \in 1..(Len(ts) - 1) : ts[i] <= ts[i + 1]
    \/ \A i \in 1..(Len(ts) - 1) : ts[i] >= ts[i + 1]

\* odeint(f, y0, ts, ...): a row per time of ts with the state at that
\* time, the state at ts[0] being y0
odeint(rates, y0, ts) ==
    [i \in DOMAIN ts |->
        [k \in DOMAIN y0 |-> y0[k] + rates[k] * (ts[i] - ts[1])]]

\* t_like as eval_components uses it, t_bigger and t_smaller
ode_times(t_like, t_initial) ==
    IF t_initial \in Range(t_like)
    THEN [bigger |-> Where(t_like, ">=", t_initial),
          smaller |-> Reverse(Where(t_like, "<=", t_initial))]
    ELSE [bigger |-> <<t_initial>> \o Where(t_like, ">", t_initial),
          smaller |-> <<t_initial>> \o Reverse(Where(t_like, "<", t_initial))]

\* np.concatenate((ans_smaller[1:][::-1], ans_bigger))
ode_splice(ans_smaller, ans_bigger) ==
    Reverse(Tail(ans_smaller)) \o ans_bigger

\* what eval_components returns when both calls of odeint return
ode_eval_components(m, init, t_like, va) ==
    LET t_initial == init[m.independent_vars[1]]
        rates == [k \in DOMAIN m.dependent_vars |->
                    ncomponent(ode_getitem(m, m.dependent_vars[k]), va)]
        initial_dependent == [k \in DOMAIN m.dependent_vars |->
                                init[m.dependent_vars[k]]]
        times == ode_times(t_like, t_initial)
        t_total == AllButLast(Reverse(times.smaller)) \o times.bigger
        ans_bigger == odeint(rates, initial_dependent, times.bigger)
        ans_smaller == odeint(rates, initial_dependent, times.smaller)
        ans == ode_splice(ans_smaller, ans_bigger)
        kept == IF t_initial \in Range(t_like) THEN ans
                ELSE MaskNotEqual(ans, t_total, t_initial)
    IN [k \in DOMAIN m.dependent_vars |->
            [i \in DOMAIN kept |-> kept[i][k]]]

\* [self.initial[var] for var in self.dependent_vars]
initial_dependent(m, init) ==
    [k \in DOMAIN m.dependent_vars |-> init[m.dependent_vars[k]]]

\* the two calls of odeint, with t_bigger and with t_smaller; failed holds
\* the calls in which the integrator gives up: odeint then warns
\* (ODEintWarning) and returns its array
odeint_calls(m, init, t_like, failed) ==
    LET times == ode_times(t_like, init[m.independent_vars[1]])
    IN << [y0 |-> initial_dependent(m, init), ts |-> times.bigger,
           failed |-> 1 \in failed],
          [y0 |-> initial_dependent(m, init), ts |-> times.smaller,
           failed |-> 2 \in failed] >>

\* the values of the independent variable a model is evaluated at
TimePoints == (0 - 1)..1
TimeArrays == UNION {[1..n -> TimePoints] : n \in 1..MaxPoints}

InitODE == model_dict \in ODEDicts /\ InitState

\* ODEModel(model_dict, initial=init)
ConstructODE ==
    /\ pc = "new"
    /\ \E init \in Initials : initial' = init
    /\ model' = ode_init(model_dict)
    /\ pc' = IF model'.status = "ok" THEN "idle" ELSE "raised"
    /\ exc' = IF model'.status = "ok" THEN "none" ELSE model'.status
    /\ UNCHANGED <<model_dict, jacobian_model, target, call, symbols, idx,
                   kwargs, calls, result, jac, hessian_model, hess, fd,
                   algebraVars, fitVars>>

\* model(x=t_like, a=va, b=va + 1) for a model with one independent
\* variable, t_like an array or a number.  odeint is called with t_bigger
\* and then with t_smaller; for times that are not monotonic it raises
\* ValueError in the versions of scipy that check them, and the other
\* versions return a row per time.  What the rows of a failed integration
\* hold is left out: the rows are those of the solution.
EvalODE ==
    /\ pc = "idle"
    /\ model.status = "ok"
    /\ Len(model.independent_vars) = 1
    /\ \E t_like \in TimeArrays, isarray \in BOOLEAN, va \in 1..MaxVal,
          checks \in BOOLEAN, failed \in SUBSET {1, 2} :
        LET times == ode_times(t_like, initial[model.independent_vars[1]])
            raises == checks /\ ~(Monotonic(times.bigger)
                                    /\ Monotonic(times.smaller))
            made == odeint_calls(model, initial, t_like, failed)
        IN /\ isarray \/ Len(t_like) = 1
           /\ checks \/ ~(Monotonic(times.bigger) /\ Monotonic(times.smaller))
           /\ \A c \in failed : Len(made[c].ts) > 1
           /\ raises => failed = {}
           /\ call' = [t |-> t_like, arr |-> isarray, va |-> va]
           /\ calls' = IF checks /\ ~Monotonic(times.bigger)
                        THEN <<made[1]>> ELSE made
           /\ result' = IF raises THEN <<>>
                         ELSE ode_eval_components(model, initial, t_like, va)
           /\ exc' = IF raises THEN "ValueError" ELSE "none"
           /\ pc' = IF raises THEN "raised" ELSE "returned"
    /\ UNCHANGED <<model_dict, model, jacobian_model, target, symbols, idx,
                   kwargs, jac, hessian_model, hess, fd, algebraVars,
                   initial, fitVars>>

NextODE == ConstructODE \/ EvalODE \/ Finish

ODESpec == InitODE /\ [][NextODE]_vars

(***************************************************************************)
(* Constraint and Fit._init_constraints.  A sympy relation is a record of  *)
(* its class and its two sides; an argument that is None is <<>> and an    *)
(* argument v that is given is <<v>>.                                      *)
(***************************************************************************)
RelationTypes == {"Eq", "Ge", "Le", "Gt", "Lt", "Ne"}
Relation(type, lhs, rhs) ==
    [kind |-> "relational", type |-> type, lhs |-> lhs, rhs |-> rhs]
\* an expression that is no relation
NoRelation(e) == [kind |-> "expr", type |-> "Expr", lhs |-> e, rhs |-> e]

\* the key that BaseModel.__init__ makes for a model that is given as an
\* expression: Variable()
DummyVariable == Sy("w")

\* lhs - rhs
Sub(lhs, rhs) == IF rhs = Num(0) THEN lhs ELSE Add(lhs, Neg(rhs))

\* a Constraint whose constructor has raised exc
NoConstraint(raised) ==
    [status |-> raised, constraint_type |-> "none", model_dict |-> <<>>,
     params |-> <<>>, independent_vars |-> <<>>, signature |-> <<>>,
     jacobian_params |-> <<>>, jacobian_signature |-> <<>>,
     hessian_params |-> <<>>, hessian_signature |-> <<>>, model |-> <<>>]

\* a Constraint that keeps the parameters of its own expression
constraint_own_params(base, params) == base.params

\* self.params as Constraint.__init__ sets it: the list handed in
constraint_params(base, params) == params

\* the attributes that Constraint.__init__ sets after super().__init__ has
\* made the model base of lhs - rhs with its Jacobian and Hessian models
constraint_attributes(constraint_type, base, jacobian, hessian, mdl, params) ==
    [status |-> "ok",
     constraint_type |-> constraint_type,
     model_dict |-> base.model_dict,
     params |-> params,
     independent_vars |-> base.independent_vars,
     signature |-> make_signature(base.independent_vars, params),
     jacobian_params |-> params,
     jacobian_signature |-> make_signature(jacobian.independent_vars, params),
     hessian_params |-> params,
     hessian_signature |-> make_signature(hessian.independent_vars, params),
     model |-> mdl]

\* Constraint.__init__ after super().__init__: the choice of self.params
constraint_of(constraint_type, base, jacobian, hessian, mdl, prm) ==
    IF base.status # "ok" THEN NoConstraint(base.status)
    ELSE IF jacobian.status # "ok" THEN NoConstraint(jacobian.status)
    ELSE IF hessian.status # "ok" THEN NoConstraint(hessian.status)
    ELSE IF mdl = <<>> /\ prm = <<>> THEN NoConstraint("TypeError")
    ELSE constraint_attributes(constraint_type, base, jacobian, hessian, mdl,
            constraint_params(base,
                IF mdl = <<>> THEN prm[1] ELSE mdl[1].params))

\* super(Constraint, self).__init__(lhs - rhs) for the model base: the
\* Jacobian and the Hessian model of HessianModel.__init__
constraint_models(constraint_type, base, mdl, prm) ==
    constraint_of(constraint_type, base,
        init_from_dict(jacobian_from_model(base, FALSE)),
        init_from_dict(hessian_from_model(base)), mdl, prm)

\* Constraint.__init__(constraint, model=mdl, params=prm)
constraint_init(constraint, mdl, prm) ==
    IF constraint.kind # "relational" THEN NoConstraint("TypeError")
    ELSE constraint_models(constraint.type,
            init_from_dict([k \in {DummyVariable} |->
                               Sub(constraint.lhs, constraint.rhs)]),
            mdl, prm)

\* the first loop of _init_constraints: a Constraint is taken as it is,
\* anything else is made into a Constraint of the model of the Fit
con_models_of(fit_model, given) ==
    [i \in DOMAIN given |->
        IF given[i].kind = "constraint" THEN given[i].constraint
        ELSE constraint_init(given[i], <<fit_model>>, <<>>)]

allowed_types == {"Eq", "Ge", "Le"}

RECURSIVE check_types(_, _)
\* the second loop of _init_constraints, from index on
check_types(con_models, index) ==
    IF index > Len(con_models) THEN [exc |-> "none", models |-> con_models]
    ELSE LET constraint == con_models[index]
         IN IF constraint.status # "ok"
            THEN [exc |-> constraint.status, models |-> <<>>]
            ELSE IF constraint.constraint_type \notin allowed_types
            THEN [exc |-> "ModelError", models |-> <<>>]
            ELSE IF constraint.constraint_type = "Le"
            THEN IF constraint.model = <<>>
                 THEN [exc |-> "AttributeError", models |-> <<>>]
                 ELSE check_types(
                        [con_models EXCEPT ![index] =
                            constraint_init(
                                Relation("Ge",
                                    Neg(constraint.model_dict[DummyVariable]),
                                    Num(0)),
                                constraint.model, <<>>)],
                        index + 1)
            ELSE check_types(con_models, index + 1)

\* self._init_constraints(constraints=given)
init_constraints(fit_model, given) ==
    IF given = <<>> THEN [exc |-> "none", models |-> <<>>]
    ELSE check_types(con_models_of(fit_model, given), 1)

\* the models that are fitted, the relations and the parameter lists
FitDicts == {[k \in {Sy("y")} |-> Add(Mul(V("a"), V("x")), V("b"))]}
ConstraintSides == {V("a"), Mul(V("a"), V("x"))}
Relations ==
    {Relation(type, lhs, Num(1)) :
        type \in RelationTypes, lhs \in ConstraintSides}
ParamLists == {<<Sy("a")>>, <<Sy("a"), Sy("b")>>}

\* a constraint given to Fit: a relation, or the Constraint made before
AsGiven(constraint) ==
    [kind |-> "constraint", constraint |-> constraint]
Givens ==
    {Relation(type, V("a"), Num(1)) : type \in RelationTypes}
        \cup {AsGiven(other[i]) : i \in DOMAIN other}

InitFit == model_dict \in FitDicts /\ InitState

\* Constraint(constraint, model=model or None, params=a list or None)
ConstructConstraint ==
    /\ pc = "idle"
    /\ other = <<>>
    /\ \E constraint \in Relations \cup {NoRelation(V("a"))},
          mdl \in {<<>>, <<model>>},
          prm \in {<<>>} \cup {<<l>> : l \in ParamLists} :
        \E made \in {constraint_init(constraint, mdl, prm)} :
           /\ call' = [constraint |-> constraint, model |-> mdl,
                       params |-> prm]
           /\ other' = IF made.status = "ok" THEN <<made>> ELSE other
           /\ pc' = IF made.status = "ok" THEN "idle" ELSE "raised"
           /\ exc' = IF made.status = "ok" THEN "none" ELSE made.status
    /\ UNCHANGED <<model_dict, model, jacobian_model, target, symbols, idx,
                   kwargs, calls, result, jac, hessian_model, hess, fd,
                   equal, initial, fitVars>>

\* Fit(model, constraints=given) with data for the variables: the
\* constraints are made, then the objective, then the minimizer
ConstructFit ==
    /\ pc = "idle"
    /\ \E n \in 0..MaxConstraints : \E given \in [1..n -> Givens] :
        \E made \in {init_constraints(model, given)} :
           /\ constraints' = [given |-> given, models |-> made.models,
                              objective |-> made.exc = "none",
                              minimizer |-> made.exc = "none"]
           /\ pc' = IF made.exc = "none" THEN "fitted" ELSE "raised"
           /\ exc' = made.exc
    /\ UNCHANGED <<model_dict, model, jacobian_model, target, call, symbols,
                   idx, kwargs, calls, result, jac, hessian_model, hess, fd,
                   algebraVars, initial, param_attrs, bounds, computed>>

NextFit == Construct \/ ConstructConstraint \/ ConstructFit

FitSpec == InitFit /\ [][NextFit]_vars

(***************************************************************************)
(* The derived values of a GradientModel and its calls.  computed counts   *)
(* for every derived value of the model how often its code has run; calls  *)
(* lists the calls made so far with what they returned, and kwargs is the  *)
(* dict that the last call has filled.                                     *)
(***************************************************************************)
Derived == {"connectivity_mapping", "vars_as_functions", "function_dict",
            "numerical_components", "ordered_symbols", "signature"}

\* @cached_property: the code of the property runs when the value is read
\* for the first time, and the value is then kept in the instance
cached_property(c, name) ==
    IF c[name] = 0 THEN [c EXCEPT ![name] = 1] ELSE c

\* @property: the code of the property runs whenever the value is read
property(c, name) == [c EXCEPT ![name] = @ + 1]

\* self.connectivity_mapping
read_connectivity_mapping(c) == cached_property(c, "connectivity_mapping")

\* self.ordered_symbols: toposort(self.connectivity_mapping), sorted
read_ordered_symbols(c) ==
    property(read_connectivity_mapping(c), "ordered_symbols")

\* self.vars_as_functions, whose code iterates over self.ordered_symbols
\* and reads self.connectivity_mapping
read_vars_as_functions(c) ==
    IF c["vars_as_functions"] > 0 THEN c
    ELSE cached_property(read_ordered_symbols(c), "vars_as_functions")

\* self.function_dict, whose code reads self.vars_as_functions
read_function_dict(c) ==
    IF c["function_dict"] > 0 THEN c
    ELSE cached_property(read_vars_as_functions(c), "function_dict")

\* self.numerical_components, whose code reads self.connectivity_mapping
read_numerical_components(c) ==
    IF c["numerical_components"] > 0 THEN c
    ELSE cached_property(read_connectivity_mapping(c),
                         "numerical_components")

\* the value of an attribute of the model is read
read_derived(c, name) ==
    CASE name = "connectivity_mapping" -> read_connectivity_mapping(c)
      [] name = "ordered_symbols" -> read_ordered_symbols(c)
      [] name = "vars_as_functions" -> read_vars_as_functions(c)
      [] name = "function_dict" -> read_function_dict(c)
      [] name = "numerical_components" -> read_numerical_components(c)
      [] OTHER -> c

\* GradientModel.__init__: _init_from_dict reads connectivity_mapping and
\* makes the signature, jacobian_from_model reads vars_as_functions and
\* function_dict
computed_by_init ==
    read_function_dict(read_vars_as_functions(
        property(read_connectivity_mapping([name \in Derived |-> 0]),
                 "signature")))

\* eval_components reads numerical_components, ordered_symbols and
\* connectivity_mapping
computed_by_eval(c) ==
    read_connectivity_mapping(read_ordered_symbols(
        read_numerical_components(c)))

\* a call that goes on with the dict of the last call
bound_arguments_kept(last, bound) ==
    [s \in (DOMAIN last) \cup (DOMAIN bound) |->
        IF s \in DOMAIN bound THEN bound[s] ELSE last[s]]

\* kwargs = bound_arguments.arguments: the dict of a call holds the
\* arguments of the call and nothing of the dict of the last call
bound_arguments(last, bound) == bound

\* the model named by tgt
ModelOf(tgt) == IF tgt = "jacobian_model" THEN jacobian_model ELSE model

InitCalls == model_dict \in HessianDicts /\ InitState

\* GradientModel(model_dict)
ConstructCalls ==
    /\ pc = "new"
    /\ model' = init_from_dict(model_dict)
    /\ jacobian_model' =
        IF model'.status = "ok"
        THEN init_from_dict(jacobian_from_model(model', FALSE))
        ELSE jacobian_model
    /\ computed' = IF model'.status = "ok" THEN computed_by_init
                   ELSE computed
    /\ LET failure == IF model'.status # "ok" THEN model'.status
                      ELSE IF jacobian_model'.status # "ok"
                      THEN jacobian_model'.status ELSE "none"
       IN /\ pc' = IF failure = "none" THEN "idle" ELSE "raised"
          /\ exc' = failure
    /\ UNCHANGED <<model_dict, target, call, symbols, idx, kwargs, calls,
                   result, jac, hessian_model, hess, fd, algebraVars,
                   initial, param_attrs, bounds, constraints>>

\* model(...) or jacobian_model(...) with a value for every symbol of the
\* signature: eval_components from the binding to the return
Evaluate ==
    /\ pc = "idle"
    /\ Len(calls) < MaxCalls
    /\ \E tgt \in {"model", "jacobian_model"}, va \in 1..MaxVal,
          arr \in BOOLEAN :
        LET m == ModelOf(tgt)
            bound == [s \in Range(m.signature) |-> ArgValue(s, va, arr)]
            keys == Keys(m)
        IN \E os \in ordered_symbols(m) :
            /\ target' = tgt
            /\ call' = [npos |-> Len(m.signature), kws |-> {},
                        va |-> va, arr |-> arr]
            /\ symbols' = os
            /\ kwargs' = EvalSymbols(m, os, bound_arguments(kwargs, bound))
            /\ result' = [i \in DOMAIN keys |-> atleast_1d(kwargs'[keys[i]])]
            /\ calls' = Append(calls, [target |-> tgt, va |-> va,
                                       arr |-> arr, result |-> result'])
            /\ computed' = IF tgt = "model" THEN computed_by_eval(computed)
                           ELSE computed
    /\ UNCHANGED <<model_dict, model, jacobian_model, pc, idx, jac, exc,
                   hessian_model, hess, fd, algebraVars, initial,
                   param_attrs, bounds, constraints>>

\* an attribute of the model is read
ReadDerived ==
    /\ pc = "idle"
    /\ \E name \in Derived :
        /\ name = "ordered_symbols" =>
                computed["ordered_symbols"] < MaxComputed
        /\ computed' = read_derived(computed, name)
    /\ UNCHANGED <<model_dict, model, jacobian_model, pc, target, call,
                   symbols, idx, kwargs, calls, result, jac, exc,
                   hessian_model, hess, fd, algebraVars, initial,
                   param_attrs, bounds, constraints>>

NextCalls == ConstructCalls \/ Evaluate \/ ReadDerived

CallsSpec == InitCalls /\ [][NextCalls]_vars

(***************************************************************************)
(* BaseModel.bounds.  A float is the integer that counts the representable *)
(* numbers from 0.0 up to it (down to it, negated, below zero), so that    *)
(* the neighbours of v are v - 1 and v + 1; None is <<>> and a number k is *)
(* <<k>> for the attributes min and max.                                   *)
(***************************************************************************)
\* a nextafter that steps away from x2
nextafter_away(x1, x2) == IF x1 < x2 THEN x1 - 1 ELSE x1 + 1

\* np.nextafter(x1, x2): the next representable number after x1 towards x2
nextafter(x1, x2) ==
    IF x1 < x2 THEN x1 + 1 ELSE IF x1 > x2 THEN x1 - 1 ELSE x2

\* the pair appended to bounds for the parameter with the attributes p
bounds_of(p) ==
    IF p.fixed
    THEN IF p.value >= 0
         THEN <<<<nextafter(p.value, 0)>>, <<p.value>>>>
         ELSE <<<<p.value>>, <<nextafter(p.value, 0)>>>>
    ELSE <<p.min, p.max>>

\* model.bounds
model_bounds(m, attrs) ==
    [i \in DOMAIN m.params |-> bounds_of(attrs[m.params[i]])]

\* the attributes of a Parameter
ParameterAttrs ==
    [fixed : BOOLEAN, value : (0 - MaxVal)..MaxVal,
     min : {<<>>, <<0 - 1>>, <<0>>}, max : {<<>>, <<1>>}]

\* the dicts of the models whose bounds are read
BoundsDicts ==
    {md \in AlgebraDicts : DOMAIN md = {Sy("y")}}
        \cup {[k \in {Sy("y")} |-> V("x")]}

InitBounds == model_dict \in BoundsDicts /\ InitState

\* Model(model_dict), the Parameter objects of the expressions having the
\* attributes attrs
ConstructBounds ==
    /\ pc = "new"
    /\ model' = init_from_dict(model_dict)
    /\ \E attrs \in [Range(model'.params) -> ParameterAttrs] :
            param_attrs' = attrs
    /\ pc' = IF model'.status = "ok" THEN "idle" ELSE "raised"
    /\ exc' = IF model'.status = "ok" THEN "none" ELSE model'.status
    /\ UNCHANGED <<model_dict, jacobian_model, target, call, symbols, idx,
                   kwargs, calls, result, jac, hessian_model, hess, fd,
                   algebraVars, initial, bounds, constraints, computed>>

\* model.bounds
ReadBounds ==
    /\ pc = "idle"
    /\ bounds' = model_bounds(model, param_attrs)
    /\ pc' = "done"
    /\ UNCHANGED <<model_dict, model, jacobian_model, target, call, symbols,
                   idx, kwargs, calls, result, jac, exc, hessian_model, hess,
                   fd, algebraVars, initial, param_attrs, constraints,
                   computed>>

NextBounds == ConstructBounds \/ ReadBounds \/ Finish

BoundsSpec == InitBounds /\ [][NextBounds]_vars

(***************************************************************************)
(* BaseNumericalModel and CallableNumericalModel: a component is a python  *)
(* callable, given as the expression it computes, or a sympy expression.   *)
(***************************************************************************)
Callable(e) == [t |-> "callable", f |-> e]

\* the expression that a component computes
Body(component) ==
    IF component.t = "callable" THEN component.f ELSE component

NoNumerical(raised) ==
    [status |-> raised, class |-> "none", model_dict |-> <<>>,
     connectivity_mapping |-> <<>>, params |-> <<>>,
     independent_vars |-> <<>>, dependent_vars |-> <<>>,
     signature |-> <<>>]

\* cls(model, connectivity_mapping=conn), without independent_vars and
\* params: BaseNumericalModel.__init__, then _init_from_dict with the
\* connectivity mapping that was given
numerical_init(cls, md, conn) ==
    IF conn = <<>> \/ DOMAIN conn[1] = {} THEN NoNumerical("TypeError")
    ELSE LET srt == toposort(conn[1])
             ordered == srt.layers
         IN IF srt.circular THEN NoNumerical("CircularDependencyError")
            ELSE IF Len(ordered) < 2 THEN NoNumerical("IndexError")
            ELSE
             LET independent == SortedByName(ordered[1])
                 params == SelectSeq(independent, IsParameter)
                 IsIndependentVar(s) == ~IsParameter(s) /\ s \notin DOMAIN md
                 independent_vars == SelectSeq(independent, IsIndependentVar)
             IN [status |-> "ok",
                 class |-> cls,
                 model_dict |-> md,
                 connectivity_mapping |-> conn[1],
                 params |-> params,
                 independent_vars |-> independent_vars,
                 dependent_vars |-> SortedByName(ordered[Len(ordered)]),
                 signature |-> make_signature(independent_vars, params)]

\* key, callable_expr = value succeeds: value can be iterated and gives two
\* items; a python function and a sympy expression cannot be iterated
Unpacks(value) == value.t = "pair"

\* BaseNumericalModel.__neg__: every value of model_dict is unpacked into
\* key and callable_expr, new_model_dict[key] is a lambda that negates
\* callable_expr, the variable that the loop has left at its last value, and
\* the new model is made from new_model_dict alone
numerical_neg(self) ==
    LET keys == Keys(self)
        values == [i \in DOMAIN keys |-> self.model_dict[keys[i]]]
    IN IF \E i \in DOMAIN values : ~Unpacks(values[i])
       THEN NoNumerical("TypeError")
       ELSE LET callable_expr == values[Len(values)][2]
                new_model_dict ==
                    [key \in {values[i][1] : i \in DOMAIN values} |->
                        Callable(Neg(Body(callable_expr)))]
            IN numerical_init(self.class, new_model_dict, <<>>)

\* CallableNumericalModel.numerical_components called as in
\* eval_components, for a model whose keys depend on arguments only
numerical_call(self, kw) ==
    LET keys == Keys(self)
    IN [i \in DOMAIN keys |->
          atleast_1d(EvalExpr(Body(self.model_dict[keys[i]]),
              [d \in self.connectivity_mapping[keys[i]] |-> kw[d]]))]

\* the components and the dicts of the numerical models
NumericalComponents ==
    { Callable(Mul(V("a"), V("x"))),
      Callable(Add(Mul(V("a"), V("x")), V("b"))),
      Callable(V("x")),
      Add(V("a"), V("x")) }
NumericalDicts ==
    UNION {[{Sy(n) : n \in K} -> NumericalComponents] :
              K \in {{"y"}, {"y", "z"}}}

\* the connectivity mapping of the components of md
connectivity_of(md) == [var \in DOMAIN md |-> FreeSymbols(Body(md[var]))]

InitNumerical == model_dict \in NumericalDicts /\ InitState

\* CallableNumericalModel(model_dict, connectivity_mapping=a mapping or None)
ConstructNumerical ==
    /\ pc = "new"
    /\ \E conn \in {<<>>, <<connectivity_of(model_dict)>>} :
        \E made \in {numerical_init("CallableNumericalModel", model_dict,
                                     conn)} :
           /\ model' = made
           /\ pc' = IF made.status = "ok" THEN "idle" ELSE "raised"
           /\ exc' = IF made.status = "ok" THEN "none" ELSE made.status
    /\ UNCHANGED <<model_dict, jacobian_model, target, call, symbols, idx,
                   kwargs, calls, result, jac, hessian_model, hess, fd,
                   algebraVars, initial, fitVars>>

\* model(x=..., a=..., b=...)
CallNumerical ==
    /\ pc = "idle"
    /\ \E va \in (0 - MaxVal)..MaxVal, arr \in BOOLEAN :
        /\ call' = [NoCall EXCEPT !.va = va, !.arr = arr]
        /\ result' = numerical_call(model,
                [s \in Range(model.signature) |-> ArgValue(s, va, arr)])
    /\ pc' = "done"
    /\ UNCHANGED <<model_dict, model, jacobian_model, target, symbols, idx,
                   kwargs, calls, jac, exc, hessian_model, hess, fd,
                   algebraVars, initial, fitVars>>

\* -model
NegateNumerical ==
    /\ pc = "idle"
    /\ \E made \in {numerical_neg(model)} :
        /\ other' = <<made>>
        /\ pc' = IF made.status = "ok" THEN "idle" ELSE "raised"
        /\ exc' = IF made.status = "ok" THEN "none" ELSE made.status
    /\ UNCHANGED <<model_dict, model, jacobian_model, target, call, symbols,
                   idx, kwargs, calls, result, jac, hessian_model, hess, fd,
                   equal, initial, fitVars>>

NextNumerical == ConstructNumerical \/ CallNumerical \/ NegateNumerical

NumericalSpec == InitNumerical /\ [][NextNumerical]_vars

(***************************************************************************)
(* Definitions used to state the properties.                               *)
(***************************************************************************)
Conn == connectivity_mapping(model_dict)
SpecKeys == DOMAIN model_dict
SpecSymbols == SpecKeys \cup UNION {Conn[k] : k \in SpecKeys}

RECURSIVE DependsOn(_, _)
\* the symbols that v depends on through at most n dependency edges
DependsOn(v, n) ==
    IF n = 0 \/ v \notin SpecKeys THEN {}
    ELSE Conn[v] \cup UNION {DependsOn(d, n - 1) : d \in Conn[v]}

HasCycle == \E k \in SpecKeys : k \in DependsOn(k, Cardinality(SpecKeys))
Acyclic == ~HasCycle
Constructed == pc # "new" /\ model.status = "ok"
NoDuplicates(seq) == \A i, j \in DOMAIN seq : seq[i] = seq[j] => i = j

\* C1: for an acyclic model spec, every direct dependency d of a key v
\* comes at a strictly smaller index than v in ordered_symbols.
C1_DependenciesFirst ==
    (pc = "eval" /\ Acyclic) =>
        \A v \in SpecKeys : \A d \in Conn[v] :
            /\ v \in Range(symbols)
            /\ d \in Range(symbols)
            /\ Position(symbols, d) < Position(symbols, v)

\* a model with a chain of two dependencies is being evaluated
C1_Witness ==
    /\ pc = "eval"
    /\ Acyclic
    /\ \E v, u \in SpecKeys : u \in Conn[v] /\ Conn[u] # {}

\* C2: when the component of a key is called, each of its direct
\* dependencies has a value in the call: the value computed earlier in the
\* same call for a dependency that is a key, the value supplied by the
\* caller otherwise; evaluating an acyclic model never misses a value.
C2_DependenciesResolved ==
    /\ \A i \in DOMAIN calls :
        LET c == calls[i]
        IN /\ c.symbol \in SpecKeys
           /\ DOMAIN c.args = Conn[c.symbol]
           /\ \A d \in Conn[c.symbol] :
                IF d \in SpecKeys
                THEN \E j \in 1..(i - 1) :
                        calls[j].symbol = d /\ calls[j].out = c.args[d]
                ELSE c.args[d] = ArgValue(d, call.va, call.arr)
    /\ exc = "KeyError" => ~(Constructed /\ Acyclic)

\* z depends on y and y on the arguments: z has been computed from y
C2_Witness ==
    /\ pc = "eval"
    /\ \E i, j \in DOMAIN calls :
        /\ j < i
        /\ calls[j].symbol \in Conn[calls[i].symbol]
        /\ Conn[calls[j].symbol] # {}
        /\ calls[i].args[calls[j].symbol] = calls[j].out

\* the other keys that have k as a direct dependency
Dependants(k) == {v \in SpecKeys \ {k} : k \in Conn[v]}
Groups ==
    <<Range(model.params), Range(model.independent_vars),
      Range(model.interdependent_vars), Range(model.dependent_vars)>>

\* C3: every symbol of the connectivity mapping of a constructed model is
\* in exactly one of params, independent_vars, interdependent_vars and
\* dependent_vars, and no symbol of params or independent_vars is a key.
C3_ExactlyOneGroup ==
    (Constructed /\ Acyclic) =>
        /\ \A s \in SpecSymbols :
            Cardinality({g \in DOMAIN Groups : s \in Groups[g]}) = 1
        /\ (Groups[1] \cup Groups[2]) \cap SpecKeys = {}

\* C4: a key is in interdependent_vars exactly when another key depends on
\* it directly, and a key no other key depends on is in dependent_vars.
C4_InterdependentIffUsed ==
    (Constructed /\ Acyclic) =>
        \A k \in SpecKeys :
            /\ k \in Range(model.interdependent_vars) <=> Dependants(k) # {}
            /\ Dependants(k) = {} => k \in Range(model.dependent_vars)

\* the exceptions that are a ModelError
ModelErrors == {"ModelError", "CyclicDependencyError"}

\* C5: constructing a model from a spec whose connectivity mapping has a
\* cycle fails during construction with a cyclic-dependency ModelError.
C5_CycleRejected ==
    (pc # "new" /\ HasCycle) =>
        /\ model.status \in ModelErrors
        /\ pc = "raised"

\* C6: constructing a model from an acyclic spec succeeds.
C6_AcyclicConstructs ==
    (pc # "new" /\ Acyclic) => model.status = "ok"

Rank(k) == 1 + Cardinality({u \in SpecKeys : StrLess(Name(u), Name(k))})

MissingArgument ==
    \E i \in DOMAIN model.signature :
        i > call.npos /\ model.signature[i] \notin call.kws
\* the call has an argument that matches no symbol of the signature
UnmatchedArgument ==
    \/ call.npos > Len(model.signature)
    \/ \E k \in call.kws : k \notin Range(model.signature)
InCall == Constructed /\ pc \in {"eval", "returned", "raised"}

ChainDict ==
    [k \in {Sy("y"), Sy("z")} |->
        IF k = Sy("y") THEN Mul(V("a"), V("x"))
        ELSE Add(Pow(V("y"), 2), V("a"))]
\* the value passed for x in the current call, at sample i
XAt(i) == At(ArgValue(Sy("x"), call.va, call.arr), i)

\* C10: for {y: a*x, z: y**2 + a} the entry of the Jacobian for z and a is
\* 2*y*x + 1 with y = a*x at every sample, so the term of the chain rule
\* through y is there.
C10_ChainRule ==
    (pc = "done" /\ model_dict = ChainDict) =>
        LET row == jac[Rank(Sy("z"))].rows[Position(model.params, Sy("a"))]
        IN /\ Len(row) = Len(ArgValue(Sy("x"), call.va, call.arr).v)
           /\ \A i \in DOMAIN row :
                row[i] = 2 * (call.va * XAt(i)) * XAt(i) + 1

\* the Jacobian of the model has been evaluated on an array of samples
C10_Witness ==
    /\ pc = "done"
    /\ model_dict = ChainDict
    /\ call.arr
    /\ Len(jac[Rank(Sy("z"))].rows[1]) = MaxLen

\* the derivative markers of the set of keys K by the sequences of
\* parameter names PS
Markers(K, PS) == {DSy(v.n, ps) : v \in K, ps \in PS}
\* the parameters of the model, one at a time and in ordered pairs
Firsts == {<<p.n>> : p \in Range(model.params)}
Seconds == {<<p1.n, p2.n>> : p1, p2 \in Range(model.params)}

\* C11: the keys of the Jacobian model are one derivative marker D(v, p)
\* for every key v and every parameter p of the model, plus the keys of the
\* model; the keys of the Hessian model are those plus one marker
\* D(v, p1, p2) for every key v and every ordered pair of parameters.
C11_DerivativeKeys ==
    Constructed =>
        /\ jacobian_model.status = "ok"
        /\ hessian_model.status = "ok"
        /\ DOMAIN jacobian_model.model_dict =
                SpecKeys \cup Markers(SpecKeys, Firsts)
        /\ Cardinality(Markers(SpecKeys, Firsts)) =
                Cardinality(SpecKeys) * Len(model.params)
        /\ DOMAIN hessian_model.model_dict =
                SpecKeys \cup Markers(SpecKeys, Firsts)
                    \cup Markers(SpecKeys, Seconds)
        /\ Cardinality(Markers(SpecKeys, Seconds)) =
                Cardinality(SpecKeys) * Len(model.params) * Len(model.params)

\* a model with two parameters: the Hessian model has the keys of both
\* orders of the pair
C11_Witness ==
    /\ Constructed
    /\ Len(model.params) = 2
    /\ DSy("y", <<"a", "b">>) \in DOMAIN hessian_model.model_dict
    /\ DSy("y", <<"b", "a">>) \in DOMAIN hessian_model.model_dict
    /\ DSy("y", <<"b">>) \in DOMAIN jacobian_model.model_dict

\* the model {y: a*x + b}
LinearDict == [k \in {Sy("y")} |-> Add(Mul(V("a"), V("x")), V("b"))]
\* the number of samples passed for an independent variable in the current
\* call
Samples == Len(ArgValue(Sy("x"), call.va, call.arr).v)

\* C12: for {y: a*x + b} eval_jacobian returns for y the row x for a and a
\* row of ones for b, one entry per sample, whatever a and b are.
C12_LinearJacobian ==
    (pc = "done" /\ target = "jacobian_model" /\ model_dict = LinearDict) =>
        /\ Len(jac) = 1
        /\ jac[1].shape = <<2, Samples>>
        /\ \A i \in 1..Samples :
            /\ jac[1].rows[Position(model.params, Sy("a"))][i] = XAt(i)
            /\ jac[1].rows[Position(model.params, Sy("b"))][i] = 1

\* the Jacobian of the linear model on an array of samples that are not all
\* equal to one
C12_Witness ==
    /\ pc = "done"
    /\ target = "jacobian_model"
    /\ model_dict = LinearDict
    /\ call.arr
    /\ \E i \in 1..Samples : jac[1].rows[1][i] # 1

\* C13: for {y: a*x + b} eval_hessian returns 0 for every pair of
\* parameters at every sample, whatever a and b are.
C13_LinearHessian ==
    (pc = "done" /\ target = "hessian_model" /\ model_dict = LinearDict) =>
        /\ Len(hess) = 1
        /\ hess[1].shape = <<2, 2, Samples>>
        /\ \A p1, p2 \in 1..2 : \A i \in 1..Samples :
                hess[1].rows[p1][p2][i] = 0

\* the Hessian of the linear model on an array of samples
C13_Witness ==
    /\ pc = "done"
    /\ target = "hessian_model"
    /\ model_dict = LinearDict
    /\ call.arr
    /\ Len(hess[1].rows[1][2]) = MaxLen

\* the key k depends on an independent variable, directly or through a key
DataDependent(k) ==
    \E s \in DependsOn(k, 2) : ~IsParameter(s) /\ s \notin SpecKeys

\* the shape of the value of the c-th key of the model in the current call
\* of the Jacobian or Hessian model
ComponentShape(c) ==
    <<Len(result[Position(Keys(Evaluated), Keys(model)[c])].v)>>

\* C14: eval_jacobian returns for every component an array of shape
\* (n, *S) and eval_hessian one of shape (n, n, *S), n being the number of
\* parameters of the model and S the shape of the data of the component
\* (the shape of the samples for a component that depends on an
\* independent variable).
C14_Shapes ==
    (target \in {"jacobian_model", "hessian_model"}
            /\ pc \in {"done", "raised"}) =>
        /\ pc = "done"
        /\ \A c \in 1..Cardinality(SpecKeys) :
            /\ DataDependent(Keys(model)[c]) =>
                    ComponentShape(c) = <<Samples>>
            /\ target = "jacobian_model" =>
                    /\ Len(jac) = Cardinality(SpecKeys)
                    /\ jac[c].shape = <<Len(model.params)>> \o ComponentShape(c)
            /\ target = "hessian_model" =>
                    /\ Len(hess) = Cardinality(SpecKeys)
                    /\ hess[c].shape =
                        <<Len(model.params), Len(model.params)>>
                            \o ComponentShape(c)

\* C15: finite_difference evaluates the model 6 times for every parameter
\* and returns for every component an array of shape (n_params, *S), S
\* being the shape of the data of the component.
C15_SixEvaluations ==
    (pc = "done" /\ target = "finite_difference") =>
        /\ Len(fd.evaluations) = 6 * Len(model.params)
        /\ \A p \in DOMAIN model.params :
            Cardinality({i \in DOMAIN fd.evaluations :
                            fd.evaluations[i].param = p}) = 6
        /\ ~fd.none
        /\ Len(fd.out) = Cardinality(SpecKeys)
        /\ \A c \in 1..Cardinality(SpecKeys) :
            fd.out[c].shape =
                <<Len(model.params),
                  IF DataDependent(Keys(model)[c]) THEN Samples ELSE 1>>

\* the points at which two expressions are compared
EquivalencePoints == 1..4
Environments == [{"a", "b", "x"} -> EquivalencePoints]

RECURSIVE ValueAt(_, _)
\* the value of an expression as a fraction [n, d], its symbols having the
\* values env
ValueAt(e, env) ==
    CASE e.t = "num" -> [n |-> e.v, d |-> 1]
      [] e.t = "sym" -> [n |-> env[e.s.n], d |-> 1]
      [] e.t = "add" ->
            LET l == ValueAt(e.l, env)
                r == ValueAt(e.r, env)
            IN [n |-> l.n * r.d + r.n * l.d, d |-> l.d * r.d]
      [] e.t = "mul" ->
            LET l == ValueAt(e.l, env)
                r == ValueAt(e.r, env)
            IN [n |-> l.n * r.n, d |-> l.d * r.d]
      [] e.t = "pow" ->
            LET b == ValueAt(e.b, env)
            IN IF e.e >= 0
               THEN [n |-> IntPow(b.n, e.e), d |-> IntPow(b.d, e.e)]
               ELSE [n |-> IntPow(b.d, 0 - e.e), d |-> IntPow(b.n, 0 - e.e)]

\* e1 - k * e2 is zero: the expressions of the pool are quotients of
\* polynomials of degree at most 2 in each symbol, so that agreeing at the
\* points is agreeing everywhere
Proportional(e1, k, e2) ==
    \A env \in Environments :
        LET u == ValueAt(e1, env)
            v == ValueAt(e2, env)
        IN u.n * v.d = k * v.n * u.d
Equivalent(e1, e2) == Proportional(e1, 1, e2)

\* C16: two models compare equal exactly when they have the same keys and
\* the expressions of every key are algebraically equivalent, however they
\* are written; the comparison is reflexive and symmetric.
C16_EqualIffEquivalent ==
    pc = "compared" =>
        /\ equal <=>
            /\ DOMAIN model.model_dict = DOMAIN other[1].model_dict
            /\ \A k \in DOMAIN model.model_dict :
                    Equivalent(model.model_dict[k], other[1].model_dict[k])
        /\ model_eq(model, model)
        /\ model_eq(other[1], other[1])
        /\ model_eq(other[1], model) = equal

\* (-1)**i
Sign(i) == IF i % 2 = 0 THEN 1 ELSE 0 - 1

C18_DoubleNegation ==
    (Constructed /\ pc = "idle") =>
        \A i \in DOMAIN other :
            /\ i % 2 = 0 => model_eq(model, other[i]) /\ model_eq(other[i], model)
            /\ i % 2 = 1 => model_eq(other[1], other[i])

\* a model has been negated MaxNegations times and -m does not compare
\* equal to m
C18_Witness ==
    /\ Constructed
    /\ Len(other) = MaxNegations
    /\ ~model_eq(model, other[1])
    /\ \E k \in SpecKeys : model_dict[k].t = "mul"

\* the independent variables the derivatives of model_dict are taken to
ODEIndependent == {d.wrt[1] : d \in DOMAIN model_dict}

\* C19: constructing an ODEModel from derivatives with respect to no
\* independent variable, or to two or more, fails with ModelError.
C19_OneIndependentVariable ==
    (pc # "new" /\ Cardinality(ODEIndependent) # 1) =>
        /\ model.status = "ModelError"
        /\ exc = "ModelError"

\* the solution through the initial values at the time t
Solution(k, t) ==
    LET var == model.dependent_vars[k]
    IN initial[var]
        + ncomponent(ode_getitem(model, var), call.va)
            * (t - initial[model.independent_vars[1]])

\* C20: an evaluation of an ODEModel returns for every dependent variable
\* one value per requested time, the i-th the one of the i-th requested
\* time; the value at t0 is returned as many times as t0 was requested.
C20_RequestedOrder ==
    (pc = "returned" /\ Len(model.independent_vars) = 1) =>
        \A k \in DOMAIN model.dependent_vars :
            /\ Len(result[k]) = Len(call.t)
            /\ \A i \in DOMAIN result[k] :
                    i \in DOMAIN call.t =>
                        result[k][i] = Solution(k, call.t[i])

\* the initial time of the model
InitialTime == initial[model.independent_vars[1]]
\* a call of the model has made its calls of odeint
Integrated == pc \in {"returned", "raised"} /\ calls # <<>>

\* C21: both integrations of a call start at t0 from the initial state;
\* the forward one gets only times t >= t0, ascending, the backward one
\* only times t <= t0, descending.
C21_BranchesStartAtInitial ==
    Integrated =>
        /\ \A c \in DOMAIN calls :
            /\ calls[c].ts[1] = InitialTime
            /\ calls[c].y0 = initial_dependent(model, initial)
        /\ \A i \in DOMAIN calls[1].ts :
            /\ calls[1].ts[i] >= InitialTime
            /\ i > 1 => calls[1].ts[i - 1] <= calls[1].ts[i]
        /\ Len(calls) = 2 =>
            \A i \in DOMAIN calls[2].ts :
                /\ calls[2].ts[i] <= InitialTime
                /\ i > 1 => calls[2].ts[i - 1] >= calls[2].ts[i]

\* C22: a call in which an integration failed ends with IntegrationError
\* and returns no result.
C22_IntegrationError ==
    (Integrated /\ \E c \in DOMAIN calls : calls[c].failed) =>
        /\ pc = "raised"
        /\ exc = "IntegrationError"
        /\ result = <<>>

\* C23: model.bounds has one pair for every parameter of model.params, in
\* the order of params: (min, max) for a free parameter, and for a fixed
\* one a pair lower <= value <= upper of equal or neighbouring numbers.
C23_Bounds ==
    (Constructed /\ pc = "done") =>
        /\ Len(bounds) = Len(model.params)
        /\ \A i \in DOMAIN bounds :
            LET p == param_attrs[model.params[i]]
                lower == bounds[i][1]
                upper == bounds[i][2]
            IN IF p.fixed
               THEN /\ lower[1] <= p.value
                    /\ p.value <= upper[1]
                    /\ upper[1] - lower[1] \in {0, 1}
               ELSE lower = p.min /\ upper = p.max

\* the bounds have been read of a model with a free parameter and a fixed
\* parameter below zero
C23_Witness ==
    /\ Constructed
    /\ pc = "done"
    /\ Len(model.params) = 2
    /\ ~param_attrs[model.params[1]].fixed
    /\ param_attrs[model.params[1]].min = <<>>
    /\ param_attrs[model.params[2]].fixed
    /\ param_attrs[model.params[2]].value < 0
    /\ bounds[2][2][1] > bounds[2][1][1]

\* s comes before t by name, derivative markers after the other symbols
\* and by ascending derivative order
BeforeByName(s, t) ==
    \/ ~IsDerivative(s) /\ ~IsDerivative(t) /\ NameLess(s, t)
    \/ IsDerivative(s) /\ IsDerivative(t)
        /\ \/ DerivativeCount(s) < DerivativeCount(t)
           \/ DerivativeCount(s) = DerivativeCount(t) /\ NameLess(s, t)

C25_ComputedOnce ==
    (Constructed /\ computed # <<>>) =>
        \A name \in Derived : computed[name] <= 1

\* the model called with the arguments of the call c, by itself
Reference(c) ==
    LET m == ModelOf(c.target)
    IN CallModel(m, [s \in Range(m.signature) |-> ArgValue(s, c.va, c.arr)])

FitDone == constraints # <<>>
\* the Constraint that the i-th constraint given to the Fit is, or is made
\* into
GivenConstraint(i) ==
    IF constraints.given[i].kind = "constraint"
    THEN constraints.given[i].constraint
    ELSE constraint_init(constraints.given[i], <<model>>, <<>>)

\* C26: a Fit that is given a constraint of a type other than Eq, Ge and Le
\* fails with ModelError, and neither objective nor minimizer is made.
C26_WrongTypeModelError ==
    (FitDone /\ \E i \in DOMAIN constraints.given :
                    GivenConstraint(i).constraint_type
                        \notin {"Eq", "Ge", "Le"}) =>
        /\ pc = "raised"
        /\ exc = "ModelError"
        /\ ~constraints.objective
        /\ ~constraints.minimizer

\* Constraint(...) has been called
ConstraintCalled == DOMAIN call = {"constraint", "model", "params"}

C29_LeBecomesGe ==
    (FitDone /\ \A i \in DOMAIN constraints.given :
                    /\ GivenConstraint(i).status = "ok"
                    /\ GivenConstraint(i).constraint_type
                            \in {"Eq", "Ge", "Le"}) =>
        /\ pc = "fitted"
        /\ Len(constraints.models) = Len(constraints.given)
        /\ \A i \in DOMAIN constraints.models :
            LET given == GivenConstraint(i)
                made == constraints.models[i]
            IN IF given.constraint_type = "Le"
               THEN /\ made.constraint_type = "Ge"
                    /\ made.model_dict[DummyVariable]
                            = Neg(given.model_dict[DummyVariable])
                    /\ made.params = given.params
               ELSE made = given

\* C30: the negation of a numerical model is a new model of the same class
\* with the same keys and connectivity mapping, whose every component
\* returns the negative of what the component of the same key of the
\* original returns, and the original is as it was.
C30_NumericalNegation ==
    (model.status = "ok" /\ "class" \in DOMAIN model /\ other # <<>>) =>
        /\ pc = "idle"
        /\ other[1].status = "ok"
        /\ other[1].class = model.class
        /\ DOMAIN other[1].model_dict = DOMAIN model.model_dict
        /\ other[1].connectivity_mapping = model.connectivity_mapping
        /\ model = numerical_init("CallableNumericalModel", model_dict,
                                  <<connectivity_of(model_dict)>>)
        /\ \A va \in (0 - MaxVal)..MaxVal, arr \in BOOLEAN :
            LET kw == [s \in Range(model.signature) |->
                          ArgValue(s, va, arr)]
                was == numerical_call(model, kw)
                now == numerical_call(other[1], kw)
            IN \A i \in DOMAIN was :
                /\ now[i].d = was[i].d
                /\ now[i].v = [j \in DOMAIN was[i].v |-> 0 - was[i].v[j]]

====
